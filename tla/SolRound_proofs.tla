--------------------------- MODULE SolRound_proofs ---------------------------
(***************************************************************************)
(* Proofs about SolRound, for every number of threads, length of walk,     *)
(* interval of looks at the done flag and set of seeds that SizesFit       *)
(* allows, and for every pattern whose residue test it admits.             *)
(*                                                                         *)
(* The sums over threads the counters are compared with - candidates and   *)
(* encodings a thread has not added yet, candidates it may still draw after*)
(* a hit - are sizes of sets of pairs: Under(h, m) has one pair for each   *)
(* thread t and number in 1 .. h[t].                                       *)
(***************************************************************************)
EXTENDS SolRound, FiniteSetTheorems, TLAPS

Hosts == {"idle", "create", "upload", "reset", "clear", "launch", "sync", "readOut",
          "readCounts", "readDone", "dropped"}
Pcs   == {"off", "check", "draw", "claim", "leave"} \cup Parts

\* The globals are reset; threads may have run since.
Fresh    == {"clear", "launch"}
Launched == {"sync", "readOut", "readCounts", "readDone"}
Cleared  == {"launch"} \cup Launched

Outputs == [Parts -> {0} \cup Seeds]
States  == [pc : Pcs, iter : 0 .. Iters, seed : {0} \cup Seeds, encodes : 0 .. Iters]

Types ==
  /\ host \in Hosts /\ live \in BOOLEAN /\ initialized \in BOOLEAN /\ status \in {0, -1}
  /\ rounds \in 0 .. MaxRounds /\ launched \in 0 .. Requested /\ suffix \in BOOLEAN
  /\ done \in {0, 1} /\ count \in Nat /\ encodes \in Nat /\ out \in Outputs
  /\ thread \in [Threads -> States]
  /\ ret \in [out : Outputs, count : Nat, encodes : Nat, done : {0, 1}]
  /\ tested \in Nat /\ encoded \in Nat /\ late \in Nat

\* Threads run between the launch and the synchronisation.
Rest ==
  /\ host # "sync" => \A t \in Threads : thread[t].pc = "off"
  /\ \A t \in Threads : thread[t].pc = "off" => thread[t] = Idle

\* The candidates and encodings a thread has not added to the counters, and
\* the candidates a thread that runs may have.
Held == [t \in Threads |-> IF thread[t].pc \in {"off", "check", "draw"} THEN thread[t].iter
                                                                      ELSE thread[t].iter + 1]
Encs == [t \in Threads |-> thread[t].encodes]
Left == [t \in Threads |-> IF thread[t].pc = "off" THEN 0 ELSE Iters]

\* The candidates a thread draws before its next look at the done flag.
Room == [t \in Threads |->
           LET since == thread[t].iter % CheckEvery IN
           IF thread[t].pc = "draw" \/ (thread[t].pc = "check" /\ since # 0)
           THEN CheckEvery - since ELSE 0]

Under(h, m) == {w \in Threads \X (1 .. m) : w[2] <= h[w[1]]}

\* A thread encodes no more than it draws, without a suffix all; and it goes
\* past the draw with a match only.
Drawn ==
  \A t \in Threads : LET me == thread[t] IN
    /\ me.pc \notin {"off", "check"} => me.iter < Iters
    /\ Encs[t] <= Held[t] /\ (~suffix => Encs[t] = Held[t])
    /\ me.pc \in {"claim"} \cup Parts => me.seed \in Seeds /\ Matches(me.seed)

Writes(t) == thread[t].pc \in Parts

\* What a thread has copied when it is about to copy part p.
Before(p) == CASE p = "seed" -> {} [] p = "private" -> {"seed"}
               [] p = "public" -> {"seed", "private"}
               [] OTHER -> {"seed", "private", "public"}

OneHit == \E s \in Seeds : Matches(s) /\ \A p \in Parts : out[p] = s

\* One thread writes, the first with a match, and part by part; without one
\* there is no output.
Writer ==
  /\ \A t, u \in Threads : Writes(t) /\ Writes(u) => t = u
  /\ \A t \in Threads : thread[t].pc \in {"leave"} \cup Parts => done = 1
  /\ \A t \in Threads : Writes(t) => \A p \in Before(thread[t].pc) : out[p] = thread[t].seed
  /\ host \in Cleared /\ done = 0 => out = Zeros
  /\ host \in Cleared /\ done = 1 => (\E t \in Threads : Writes(t)) \/ OneHit
  /\ host \in Fresh => done = 0

Read ==
  /\ host \in {"readCounts", "readDone"} => ret.out = out
  /\ host = "readDone" => ret.count = count /\ ret.encodes = encodes
  /\ ResultIsOne /\ CountsExact /\ ~missed

\* The counters lack what the threads hold.
Counted ==
  /\ host \in {"create", "upload", "reset"} \cup Fresh => tested = 0 /\ encoded = 0
  /\ host \in Fresh => count = 0 /\ encodes = 0
  /\ host \in Launched => /\ tested = count + Cardinality(Under(Held, Iters))
                          /\ encoded = encodes + Cardinality(Under(Encs, Iters))
                          /\ ~suffix => encodes = count

\* A thread that has left has added Iters candidates at most.
Bounded ==
  /\ count + Cardinality(Under(Left, Iters)) <= Requested * Iters
  /\ encodes <= count

\* After the first hit there is room for CheckEvery candidates of every other
\* thread.
Late ==
  /\ done = 0 \/ host \in {"create", "upload", "reset"} => late = 0
  /\ done = 1 => late + Cardinality(Under(Room, CheckEvery)) <= (Requested - 1) * CheckEvery

Memory == BufferOwned

IInv == Types /\ Rest /\ Drawn /\ Writer /\ Read /\ Counted /\ Bounded /\ Late /\ Memory

-----------------------------------------------------------------------------
(* Sums over the threads. *)

LEMMA UnderFinite ==
  ASSUME SizesFit, NEW m \in Nat, NEW h \in [Threads -> 0 .. m]
  PROVE  IsFiniteSet(Under(h, m)) /\ Cardinality(Under(h, m)) \in Nat
<1>1. IsFiniteSet(Threads) /\ IsFiniteSet(1 .. m)
  <2>1. 1 \in Int /\ Requested \in Int /\ m \in Int
    BY DEF SizesFit
  <2> QED BY <2>1, FS_Interval DEF Threads
<1>2. IsFiniteSet(Threads \X (1 .. m))
  BY <1>1, FS_Product
<1>3. Under(h, m) \in SUBSET (Threads \X (1 .. m))
  BY DEF Under
<1> QED BY <1>2, <1>3, FS_Subset, FS_CardinalityType

\* One thread's share of the sum, and the rest.
LEMMA UnderSplits ==
  ASSUME SizesFit, NEW m \in Nat, NEW h \in [Threads -> 0 .. m], NEW t \in Threads
  PROVE  LET rest == {w \in Under(h, m) : w[1] # t} IN
         /\ Cardinality(rest) \in Nat
         /\ Cardinality(Under(h, m)) = Cardinality(rest) + h[t]
<1> DEFINE rest == {w \in Under(h, m) : w[1] # t}
           mine == {t} \X (1 .. h[t])
<1>1. h[t] \in Nat /\ h[t] <= m
  OBVIOUS
<1>2. IsFiniteSet(rest) /\ Cardinality(rest) \in Nat
  <2>1. rest \in SUBSET Under(h, m)
    OBVIOUS
  <2> HIDE DEF rest
  <2> QED BY <2>1, UnderFinite, FS_Subset, FS_CardinalityType
<1>3. IsFiniteSet(mine) /\ Cardinality(mine) = h[t]
  <2>1. IsFiniteSet(1 .. h[t]) /\ Cardinality(1 .. h[t]) = h[t]
    <3>1. 1 \in Int /\ h[t] \in Int /\ h[t] >= 0
      BY <1>1
    <3> QED BY <3>1, FS_Interval
  <2>2. IsFiniteSet({t}) /\ Cardinality({t}) = 1
    BY FS_Singleton
  <2>3. IsFiniteSet({t} \X (1 .. h[t])) /\ Cardinality({t} \X (1 .. h[t])) = 1 * h[t]
    BY <2>1, <2>2, FS_Product
  <2> QED BY <1>1, <2>3
<1>4. rest \cup mine = Under(h, m) /\ rest \cap mine = {}
  <2>1. ASSUME NEW u \in Threads, NEW k \in 1 .. m
        PROVE  <<u, k>> \in rest \cup mine <=> <<u, k>> \in Under(h, m)
    BY <1>1 DEF Under
  <2>2. rest \subseteq Threads \X (1 .. m) /\ mine \subseteq Threads \X (1 .. m)
        /\ Under(h, m) \subseteq Threads \X (1 .. m)
    BY <1>1 DEF Under
  <2>3. rest \cap mine = {}
    OBVIOUS
  <2> HIDE DEF rest, mine
  <2> QED BY <2>1, <2>2, <2>3
<1>5. Cardinality(rest \cap mine) = 0
  BY <1>4, FS_EmptySet
<1>6. Cardinality(rest \cup mine) =
        Cardinality(rest) + Cardinality(mine) - Cardinality(rest \cap mine)
  <2> HIDE DEF rest, mine
  <2> QED BY <1>2, <1>3, FS_Union
<1>7. Cardinality(Under(h, m)) = Cardinality(rest) + h[t]
  <2>1. Cardinality(rest \cup mine) = Cardinality(Under(h, m))
    <3> HIDE DEF rest, mine
    <3> QED BY <1>4
  <2> HIDE DEF rest, mine
  <2> QED BY <1>1, <1>2, <1>3, <1>5, <1>6, <2>1
<1> QED BY <1>2, <1>7

LEMMA UnderChanges ==
  ASSUME SizesFit, NEW m \in Nat, NEW h \in [Threads -> 0 .. m], NEW g \in [Threads -> 0 .. m],
         NEW t \in Threads, \A u \in Threads \ {t} : g[u] = h[u]
  PROVE  /\ Cardinality(Under(g, m)) = Cardinality(Under(h, m)) + g[t] - h[t]
         /\ Cardinality(Under(h, m)) >= h[t]
<1> DEFINE rest(f) == {w \in Under(f, m) : w[1] # t}
<1>1. rest(g) = rest(h)
  BY DEF Under
<1>2. Cardinality(rest(h)) \in Nat /\ Cardinality(Under(h, m)) = Cardinality(rest(h)) + h[t]
  BY UnderSplits
<1>3. Cardinality(Under(g, m)) = Cardinality(rest(g)) + g[t]
  BY UnderSplits
<1>4. h[t] \in Nat /\ g[t] \in Nat
  OBVIOUS
<1> HIDE DEF rest
<1> QED BY <1>1, <1>2, <1>3, <1>4

LEMMA UnderNone ==
  ASSUME SizesFit, NEW m \in Nat, NEW h \in [Threads -> 0 .. m], \A t \in Threads : h[t] = 0
  PROVE  Cardinality(Under(h, m)) = 0
<1>1. Under(h, m) = {}
  BY DEF Under
<1> QED BY <1>1, FS_EmptySet

\* A sum is at most m for each thread, and one thread less if one has none.
LEMMA UnderBounded ==
  ASSUME SizesFit, NEW m \in Nat, NEW h \in [Threads -> 0 .. m]
  PROVE  /\ Cardinality(Under(h, m)) <= Requested * m
         /\ \A t \in Threads : h[t] = 0 => Cardinality(Under(h, m)) <= (Requested - 1) * m
<1>1. /\ IsFiniteSet(Threads) /\ Cardinality(Threads) = Requested
      /\ IsFiniteSet(1 .. m) /\ Cardinality(1 .. m) = m
  <2>1. 1 \in Int /\ Requested \in Int /\ Requested >= 1 /\ m \in Int /\ m >= 0
    BY DEF SizesFit
  <2> QED BY <2>1, FS_Interval DEF Threads
<1>2. IsFiniteSet(Threads \X (1 .. m)) /\ Cardinality(Threads \X (1 .. m)) = Requested * m
  BY <1>1, FS_Product
<1>3. Under(h, m) \in SUBSET (Threads \X (1 .. m))
  BY DEF Under
<1>4. Cardinality(Under(h, m)) <= Requested * m
  BY <1>2, <1>3, FS_Subset
<1>5. ASSUME NEW t \in Threads, h[t] = 0
      PROVE  Cardinality(Under(h, m)) <= (Requested - 1) * m
  <2> DEFINE O == Threads \ {t}
  <2>1. IsFiniteSet(O) /\ Cardinality(O) = Requested - 1
    BY <1>1, FS_RemoveElement
  <2> HIDE DEF O
  <2>2. IsFiniteSet(O \X (1 .. m)) /\ Cardinality(O \X (1 .. m)) = (Requested - 1) * m
    <3>1. IsFiniteSet(O \X (1 .. m))
          /\ Cardinality(O \X (1 .. m)) = Cardinality(O) * Cardinality(1 .. m)
      BY <1>1, <2>1, FS_Product
    <3> QED BY <1>1, <2>1, <3>1
  <2>3. Under(h, m) \in SUBSET (O \X (1 .. m))
    BY <1>5 DEF O, Under
  <2> QED BY <2>2, <2>3, FS_Subset
<1> QED BY <1>4, <1>5

-----------------------------------------------------------------------------
(* Remainders: how they change when a number grows by one. *)

LEMMA Remainder ==
  ASSUME NEW i \in Nat, NEW b \in Nat \ {0}
  PROVE  i % b \in 0 .. b - 1 /\ i % b <= i /\ \E q \in Nat : i = b * q + (i % b)
<1> DEFINE q == i \div b
<1>1. i % b \in 0 .. b - 1 /\ q \in Nat /\ b * q \in Nat
  OBVIOUS
<1>2. i % b = i - b * q
  OBVIOUS
<1> HIDE DEF q
<1>3. i = b * q + (i % b)
  BY <1>1, <1>2
<1>4. i % b <= i
  BY <1>1, <1>2
<1> QED BY <1>1, <1>3, <1>4

LEMMA RemainderIs ==
  ASSUME NEW i \in Nat, NEW b \in Nat \ {0}, NEW q \in Nat, NEW r \in Nat, i = b * q + r, r < b
  PROVE  i % b = r
OBVIOUS

LEMMA NextRemainder ==
  ASSUME NEW i \in Nat, NEW b \in Nat \ {0}
  PROVE  (i + 1) % b = IF (i % b) + 1 = b THEN 0 ELSE (i % b) + 1
<1>1. PICK q \in Nat : i = b * q + (i % b)
  BY Remainder
<1>2. i % b \in 0 .. b - 1
  BY Remainder
<1>3. CASE (i % b) + 1 = b
  <2> DEFINE p == q + 1
  <2>1. i + 1 = b * p + 0 /\ p \in Nat /\ i + 1 \in Nat /\ 0 < b
    BY <1>1, <1>2, <1>3
  <2> HIDE DEF p
  <2>2. (i + 1) % b = 0
    BY <2>1, RemainderIs
  <2> QED BY <1>3, <2>2
<1>4. CASE (i % b) + 1 # b
  <2> DEFINE r == (i % b) + 1
  <2>1. i + 1 = b * q + r /\ r \in Nat /\ r < b /\ i + 1 \in Nat
    BY <1>1, <1>2, <1>4
  <2> HIDE DEF r
  <2>2. (i + 1) % b = r
    BY <2>1, RemainderIs
  <2> QED BY <1>4, <2>2 DEF r
<1> QED BY <1>3, <1>4

-----------------------------------------------------------------------------
(* A draw, and what a step of a thread leaves alone. *)

\* The three outcomes of a draw: the residue rejects the key, its address
\* matches, or it was encoded in vain.  A rejected key never matches.
LEMMA DrawIs ==
  ASSUME SizesFit, Types, NEW t \in Threads, Draw(t)
  PROVE  LET me == thread[t] IN
         /\ me.pc = "draw" /\ UNCHANGED globals /\ tested' = tested + 1 /\ (~missed => ~missed')
         /\ late' = IF done = 1 THEN late + 1 ELSE late
         /\ \E seed \in Seeds, e \in {0, 1} :
              /\ encoded' = encoded + e /\ (~suffix => e = 1)
              /\ thread' = [thread EXCEPT ![t] =
                   IF Matches(seed)
                   THEN [pc |-> "claim", iter |-> me.iter, seed |-> seed,
                         encodes |-> me.encodes + e]
                   ELSE [pc |-> "check", iter |-> me.iter + 1, seed |-> seed,
                         encodes |-> me.encodes + e]]
<1> DEFINE me == thread[t]
<1>1. /\ me.pc = "draw" /\ UNCHANGED globals /\ tested' = tested + 1
      /\ late' = IF done = 1 THEN late + 1 ELSE late
  BY DEF Draw, KernelAt
<1>2. /\ me = [pc |-> me.pc, iter |-> me.iter, seed |-> me.seed, encodes |-> me.encodes]
      /\ me.encodes \in Nat /\ me.iter \in Nat /\ encoded \in Nat
  BY DEF Types, States, SizesFit
<1> DEFINE next(seed) == IF Rejected(seed)
                         THEN [me EXCEPT !.pc = "check", !.iter = @ + 1, !.seed = seed]
                         ELSE IF Matches(seed)
                         THEN [me EXCEPT !.pc = "claim", !.seed = seed, !.encodes = @ + 1]
                         ELSE [me EXCEPT !.pc = "check", !.iter = @ + 1, !.seed = seed,
                                         !.encodes = @ + 1]
<1>3. PICK seed \in Seeds :
        /\ thread' = [thread EXCEPT ![t] = next(seed)]
        /\ encoded' = IF suffix /\ seed \notin Residue THEN encoded ELSE encoded + 1
        /\ missed' = (missed \/ (Matches(seed) /\ next(seed).pc # "claim"))
  BY DEF Draw
<1>4. ~(Rejected(seed) /\ Matches(seed))
  BY DEF Rejected, Matches, SizesFit
<1> DEFINE e == IF Rejected(seed) THEN 0 ELSE 1
<1>5. encoded' = encoded + e /\ e \in {0, 1} /\ (~suffix => e = 1)
  BY <1>2, <1>3 DEF Rejected
<1>6. next(seed) = IF Matches(seed)
                   THEN [pc |-> "claim", iter |-> me.iter, seed |-> seed,
                         encodes |-> me.encodes + e]
                   ELSE [pc |-> "check", iter |-> me.iter + 1, seed |-> seed,
                         encodes |-> me.encodes + e]
  <2>1. CASE Rejected(seed)
    <3>1. next(seed) = [me EXCEPT !.pc = "check", !.iter = @ + 1, !.seed = seed] /\ e = 0
          /\ ~Matches(seed)
      BY <1>4, <2>1
    <3>2. me.encodes + e = me.encodes
      BY <1>2, <3>1
    <3> HIDE DEF next, e, me
    <3> QED BY <1>2, <3>1, <3>2
  <2>2. CASE ~Rejected(seed) /\ Matches(seed)
    <3>1. e = 1
          /\ next(seed) = [me EXCEPT !.pc = "claim", !.seed = seed, !.encodes = @ + 1]
      BY <2>2
    <3> HIDE DEF next, e, me
    <3> QED BY <1>2, <2>2, <3>1
  <2>3. CASE ~Rejected(seed) /\ ~Matches(seed)
    <3>1. /\ e = 1
          /\ next(seed) = [me EXCEPT !.pc = "check", !.iter = @ + 1, !.seed = seed,
                                     !.encodes = @ + 1]
      BY <2>3
    <3> HIDE DEF next, e, me
    <3> QED BY <1>2, <2>3, <3>1
  <2> QED BY <2>1, <2>2, <2>3
<1>7. Matches(seed) => next(seed).pc = "claim"
  BY <1>6
<1>8. ~missed => ~missed'
  <2> HIDE DEF next
  <2> QED BY <1>3, <1>7
<1> HIDE DEF next, e
<1> QED BY <1>1, <1>3, <1>5, <1>6, <1>8

\* A step of a thread leaves the host, the pattern and the other threads alone.
LEMMA ThreadKeeps ==
  ASSUME SizesFit, Types, Rest, NEW t \in Threads, ThreadStep(t)
  PROVE  /\ host = "sync" /\ UNCHANGED <<hostVars, suffix>> /\ thread[t].pc # "off"
         /\ thread' = [thread EXCEPT ![t] = thread'[t]]
         /\ \A u \in Threads \ {t} : thread'[u] = thread[u]
<1>1. CASE CheckDone(t)
  BY <1>1 DEF CheckDone, KernelAt, Exits, Goto, Types, Rest
<1>2. CASE Draw(t)
  <2>1. thread[t].pc = "draw" /\ UNCHANGED <<hostVars, suffix>>
    BY <1>2 DEF Draw, KernelAt
  <2>2. PICK seed : thread' = [thread EXCEPT ![t] = seed]
    BY <1>2, DrawIs
  <2> QED BY <2>1, <2>2 DEF Types, Rest
<1>3. CASE Claim(t)
  BY <1>3 DEF Claim, KernelAt, Goto, Types, Rest
<1>4. CASE WriteResult(t)
  BY <1>4 DEF WriteResult, Copy, KernelAt, Goto, Types, Rest
<1>5. CASE Leave(t)
  BY <1>5 DEF Leave, KernelAt, Exits, Types, Rest
<1>6. CASE RunOut(t)
  BY <1>6 DEF RunOut, KernelAt, Exits, Types, Rest
<1> QED BY <1>1, <1>2, <1>3, <1>4, <1>5, <1>6 DEF ThreadStep

\* Writing goes from part to part.
LEMMA CopyIs ==
  ASSUME NEW t \in Threads, WriteResult(t)
  PROVE  LET part == thread[t].pc
             next == CASE part = "seed" -> "private" [] part = "private" -> "public"
                       [] part = "public" -> "address" [] OTHER -> "leave"
         IN /\ part \in Parts
            /\ thread' = [thread EXCEPT ![t].pc = next]
            /\ out' = [out EXCEPT ![part] = thread[t].seed]
            /\ UNCHANGED <<done, count, encodes, history>>
BY DEF WriteResult, Copy, KernelAt, Goto, Parts

-----------------------------------------------------------------------------
(* Types and rest. *)

LEMMA StatesHold ==
  ASSUME SizesFit
  PROVE  Idle \in States /\ Started \in States /\ Zeros \in Outputs
         /\ Unread \in [out : Outputs, count : Nat, encodes : Nat, done : {0, 1}]
<1>1. Idle \in States
  BY DEF Idle, States, Pcs, SizesFit
<1>2. Started \in States
  BY DEF Started, Idle, States, Pcs, SizesFit
<1>3. Zeros \in Outputs
  BY DEF Zeros, Outputs
<1> QED BY <1>1, <1>2, <1>3 DEF Unread

LEMMA TypesStep ==
  ASSUME SizesFit, IInv, [Next]_vars
  PROVE  Types'
<1> USE DEF IInv
<1>1. CASE HostStep
  <2> USE DEF Types, Hosts, At, hostVars, globals, history, KeepContext
  <2>1. CASE BeginRound
    <3>1. rounds' \in 0 .. MaxRounds
      BY <2>1 DEF BeginRound, SizesFit
    <3> QED BY <2>1, <3>1, StatesHold DEF BeginRound
  <2>2. CASE CreateContext \/ Upload \/ Reset
    <3>1. CASE CreateContext
      BY <3>1 DEF CreateContext
    <3>2. CASE Upload
      BY <3>2 DEF Upload
    <3>3. CASE Reset
      BY <3>3 DEF Reset
    <3> QED BY <2>2, <3>1, <3>2, <3>3
  <2>3. CASE ClearOut
    <3>1. launched' \in 0 .. Requested
      BY <2>3 DEF ClearOut, Threads, SizesFit
    <3> QED BY <2>3, <3>1, StatesHold DEF ClearOut
  <2>4. CASE RetryLaunch
    <3>1. launched' \in 0 .. Requested
      BY <2>4 DEF RetryLaunch, SizesFit
    <3> QED BY <2>4, <3>1 DEF RetryLaunch
  <2>5. CASE Launch
    <3>1. thread' \in [Threads -> States]
      BY <2>5, StatesHold DEF Launch
    <3> QED BY <2>5, <3>1 DEF Launch
  <2>6. CASE Synchronize
    BY <2>6 DEF Synchronize
  <2>7. CASE ReadOut
    BY <2>7 DEF ReadOut
  <2>8. CASE ReadCounts
    BY <2>8 DEF ReadCounts
  <2>9. CASE ReadDone
    BY <2>9 DEF ReadDone
  <2>10. CASE RoundFails
    <3>1. thread' \in [Threads -> States]
      BY <2>10, StatesHold DEF RoundFails
    <3> QED BY <2>10, <3>1 DEF RoundFails
  <2>11. CASE Drop
    BY <2>11 DEF Drop
  <2> QED
    BY <1>1, <2>1, <2>2, <2>3, <2>4, <2>5, <2>6, <2>7, <2>8, <2>9, <2>10, <2>11 DEF HostStep
<1>2. ASSUME NEW t \in Threads, ThreadStep(t)
      PROVE  Types'
  <2>1. UNCHANGED <<hostVars, suffix>>
    BY <1>2, ThreadKeeps
  <2>2. /\ thread[t] \in States /\ thread \in [Threads -> States]
        /\ thread[t].iter \in Nat /\ thread[t].encodes \in Nat /\ Iters \in Nat
    BY DEF Types, States, SizesFit
  <2>3. SUFFICES /\ done' \in {0, 1} /\ count' \in Nat /\ encodes' \in Nat /\ out' \in Outputs
                 /\ thread' \in [Threads -> States]
                 /\ tested' \in Nat /\ encoded' \in Nat /\ late' \in Nat
    BY <2>1 DEF Types, hostVars
  <2> USE DEF Types, history, globals
  <2>4. ASSUME NEW n \in Nat, Exits(t, n)
        PROVE  count' \in Nat /\ encodes' \in Nat /\ thread' \in [Threads -> States]
    BY <2>2, <2>4, StatesHold DEF Exits
  <2>5. ASSUME NEW p \in Pcs, Goto(t, p)
        PROVE  thread' \in [Threads -> States]
    BY <2>2, <2>5 DEF Goto, States
  <2>6. CASE CheckDone(t)
    <3>1. UNCHANGED <<done, out, history>>
      BY <2>6 DEF CheckDone
    <3>2. CASE Exits(t, thread[t].iter)
      BY <2>2, <2>4, <3>1, <3>2
    <3>3. CASE Goto(t, "draw") /\ UNCHANGED <<count, encodes>>
      BY <2>5, <3>1, <3>3 DEF Pcs
    <3> QED BY <2>6, <3>2, <3>3 DEF CheckDone
  <2>7. CASE Draw(t)
    <3>1. UNCHANGED globals /\ tested' \in Nat /\ late' \in Nat
      BY <2>7, DrawIs
    <3>2. PICK seed \in Seeds, e \in {0, 1} :
             /\ encoded' = encoded + e
             /\ thread' = [thread EXCEPT ![t] =
                   IF Matches(seed)
                   THEN [pc |-> "claim", iter |-> thread[t].iter, seed |-> seed,
                         encodes |-> thread[t].encodes + e]
                   ELSE [pc |-> "check", iter |-> thread[t].iter + 1, seed |-> seed,
                         encodes |-> thread[t].encodes + e]]
      BY <2>7, DrawIs
    <3>3. thread[t].iter + 1 \in 0 .. Iters /\ thread[t].encodes + e \in 0 .. Iters
      <4>1. thread[t].pc = "draw" /\ thread[t].iter < Iters
        BY <2>7 DEF Draw, KernelAt, Drawn
      <4>2. thread[t].encodes <= thread[t].iter
        BY <4>1 DEF Drawn, Encs, Held
      <4> QED BY <2>2, <4>1, <4>2
    <3>4. thread' \in [Threads -> States]
      BY <2>2, <3>2, <3>3 DEF States, Pcs
    <3> QED BY <3>1, <3>2, <3>4
  <2>8. CASE Claim(t)
    BY <2>5, <2>8 DEF Claim, Pcs, Parts
  <2>9. CASE WriteResult(t)
    <3>1. thread[t].pc \in Parts /\ out' = [out EXCEPT ![thread[t].pc] = thread[t].seed]
          /\ UNCHANGED <<done, count, encodes, history>>
      BY <2>9, CopyIs
    <3>2. PICK p \in Pcs : thread' = [thread EXCEPT ![t].pc = p]
      BY <2>9, CopyIs DEF Pcs, Parts
    <3>3. out' \in Outputs
      BY <2>2, <3>1 DEF Outputs, States
    <3> QED BY <2>5, <3>1, <3>2, <3>3 DEF Goto
  <2>10. CASE Leave(t)
    BY <2>2, <2>4, <2>10 DEF Leave
  <2>11. CASE RunOut(t)
    BY <2>2, <2>4, <2>11 DEF RunOut
  <2> QED BY <1>2, <2>6, <2>7, <2>8, <2>9, <2>10, <2>11 DEF ThreadStep
<1>3. CASE Finished \/ UNCHANGED vars
  BY <1>3 DEF Finished, Types, vars, hostVars, globals, history
<1> QED BY <1>1, <1>2, <1>3 DEF Next

\* What a step of a thread does to the counters and to what the threads hold.
Sums(t) ==
  \E a \in 0 .. Iters, b \in 0 .. Iters, c \in 0 .. Iters :
    /\ Held' = [Held EXCEPT ![t] = a] /\ Encs' = [Encs EXCEPT ![t] = b]
    /\ Left' = [Left EXCEPT ![t] = c]
    /\ tested' - count' - a = tested - count - Held[t]
    /\ encoded' - encodes' - b = encoded - encodes - Encs[t]
    /\ b <= a /\ (~suffix => a = b)
    /\ count' + c <= count + Left[t]
    /\ encodes' - encodes <= count' - count /\ (~suffix => encodes' - encodes = count' - count)

\* The host touches the threads when it launches them and when it gives up.
LEMMA HostKeeps ==
  ASSUME HostStep
  PROVE  /\ suffix' = suffix
         /\ thread' = thread \/ Launch \/ RoundFails
<1> USE DEF At
<1>1. CASE BeginRound \/ CreateContext \/ Upload \/ Reset \/ ClearOut \/ RetryLaunch
  BY <1>1 DEF BeginRound, CreateContext, Upload, Reset, ClearOut, RetryLaunch
<1>2. CASE Launch \/ Synchronize \/ ReadOut \/ ReadCounts \/ ReadDone
  BY <1>2 DEF Launch, Synchronize, ReadOut, ReadCounts, ReadDone
<1>3. CASE RoundFails \/ Drop
  BY <1>3 DEF RoundFails, Drop
<1> QED BY <1>1, <1>2, <1>3 DEF HostStep

LEMMA RestStep ==
  ASSUME SizesFit, IInv, [Next]_vars
  PROVE  Rest'
<1> USE DEF IInv
<1>1. CASE HostStep
  <2>1. CASE Launch
    BY <2>1 DEF Launch, At, Rest, Started, Idle
  <2>2. CASE RoundFails
    BY <2>2 DEF RoundFails, Rest, Idle
  <2>3. CASE Synchronize
    BY <2>3 DEF Synchronize, Rest
  <2>4. CASE thread' = thread /\ host # "sync"
    BY <2>4 DEF Rest
  <2>5. host = "sync" => Synchronize \/ RoundFails
    BY <1>1 DEF HostStep, At, BeginRound, CreateContext, Upload, Reset, ClearOut, RetryLaunch,
                Launch, ReadOut, ReadCounts, ReadDone, Drop
  <2> QED BY <1>1, <2>1, <2>2, <2>3, <2>4, <2>5, HostKeeps
<1>2. ASSUME NEW t \in Threads, ThreadStep(t)
      PROVE  Rest'
  <2>1. thread'[t].pc = "off" => thread'[t] = Idle
    <3> USE DEF KernelAt, Types, Idle
    <3>1. CASE CheckDone(t)
      <4>1. CASE Exits(t, thread[t].iter)
        BY <4>1 DEF Exits
      <4>2. CASE Goto(t, "draw")
        BY <4>2 DEF Goto, States
      <4> QED BY <3>1, <4>1, <4>2 DEF CheckDone
    <3>2. CASE Draw(t)
      BY <3>2, DrawIs
    <3>3. CASE Claim(t)
      BY <3>3 DEF Claim, Goto, States
    <3>4. CASE WriteResult(t)
      BY <3>4, CopyIs DEF States, Parts
    <3>5. CASE Leave(t) \/ RunOut(t)
      BY <3>5 DEF Leave, RunOut, Exits
    <3> QED BY <1>2, <3>1, <3>2, <3>3, <3>4, <3>5 DEF ThreadStep
  <2>2. host = "sync" /\ UNCHANGED hostVars /\ \A u \in Threads \ {t} : thread'[u] = thread[u]
    BY <1>2, ThreadKeeps
  <2> QED BY <2>1, <2>2 DEF Rest, hostVars
<1>3. CASE Finished \/ UNCHANGED vars
  BY <1>3 DEF Finished, Rest, vars, hostVars
<1> QED BY <1>1, <1>2, <1>3 DEF Next

-----------------------------------------------------------------------------
(* Counting. *)

LEMMA HoldsTyped ==
  ASSUME SizesFit, Types, Rest, Drawn
  PROVE  /\ Held \in [Threads -> 0 .. Iters] /\ Encs \in [Threads -> 0 .. Iters]
         /\ Left \in [Threads -> 0 .. Iters] /\ Iters \in Nat
         /\ Room \in [Threads -> 0 .. CheckEvery] /\ CheckEvery \in Nat \ {0}
<1>1. ASSUME NEW t \in Threads
      PROVE  /\ thread[t].iter \in Nat /\ thread[t].iter \in 0 .. Iters
             /\ thread[t].encodes \in 0 .. Iters
             /\ thread[t].pc \notin {"off", "check", "draw"} => thread[t].iter + 1 \in 0 .. Iters
  BY DEF Types, States, Drawn, SizesFit
<1>2. Iters \in Nat /\ CheckEvery \in Nat \ {0}
  BY DEF SizesFit
<1>3. ASSUME NEW t \in Threads
      PROVE  CheckEvery - (thread[t].iter % CheckEvery) \in 0 .. CheckEvery
  <2>1. thread[t].iter % CheckEvery \in 0 .. CheckEvery - 1
    BY <1>1, <1>2, Remainder
  <2> QED BY <1>2, <2>1
<1> QED BY <1>1, <1>2, <1>3 DEF Held, Encs, Left, Room

LEMMA ThreadSums ==
  ASSUME SizesFit, IInv, NEW t \in Threads, ThreadStep(t)
  PROVE  Sums(t)
<1> USE DEF IInv
<1>1. thread' = [thread EXCEPT ![t] = thread'[t]] /\ thread[t].pc # "off" /\ suffix' = suffix
  BY ThreadKeeps
<1>2. /\ thread[t] \in States /\ thread \in [Threads -> States] /\ Iters \in Nat
      /\ thread[t].iter \in Nat /\ thread[t].encodes \in Nat /\ thread[t].iter <= Iters
      /\ tested \in Nat /\ count \in Nat /\ encoded \in Nat /\ encodes \in Nat
      /\ Held[t] \in Nat /\ Encs[t] \in Nat /\ Held[t] \in 0 .. Iters /\ Encs[t] \in 0 .. Iters
      /\ Encs[t] <= Held[t] /\ (~suffix => Encs[t] = Held[t]) /\ Encs[t] = thread[t].encodes
  BY HoldsTyped DEF Types, States, SizesFit, Drawn, Encs
<1> DEFINE a == Held'[t]
           b == Encs'[t]
           c == Left'[t]
<1>3. /\ Held' = [Held EXCEPT ![t] = a] /\ Encs' = [Encs EXCEPT ![t] = b]
      /\ Left' = [Left EXCEPT ![t] = c]
  <2>1. \A u \in Threads \ {t} : thread'[u] = thread[u]
    BY ThreadKeeps
  <2>2. Held' = [Held EXCEPT ![t] = a]
    <3>1. \A u \in Threads \ {t} : Held'[u] = Held[u]
      BY <2>1 DEF Held
    <3> QED BY <3>1 DEF Held
  <2>3. Encs' = [Encs EXCEPT ![t] = b]
    <3>1. \A u \in Threads \ {t} : Encs'[u] = Encs[u]
      BY <2>1 DEF Encs
    <3> QED BY <3>1 DEF Encs
  <2>4. Left' = [Left EXCEPT ![t] = c]
    <3>1. \A u \in Threads \ {t} : Left'[u] = Left[u]
      BY <2>1 DEF Left
    <3> QED BY <3>1 DEF Left
  <2> QED BY <2>2, <2>3, <2>4
<1>4. ASSUME thread'[t].pc \in {"off", "check", "draw"}
      PROVE  a = thread'[t].iter
  BY <1>4 DEF Held
<1>5. ASSUME thread'[t].pc \notin {"off", "check", "draw"}
      PROVE  a = thread'[t].iter + 1
  BY <1>5 DEF Held
<1>6. /\ b = thread'[t].encodes /\ Left[t] = Iters
      /\ c = IF thread'[t].pc = "off" THEN 0 ELSE Iters
  BY <1>1 DEF Encs, Left
<1> DEFINE Rates ==
      /\ count' + c <= count + Left[t]
      /\ encodes' - encodes <= count' - count /\ (~suffix => encodes' - encodes = count' - count)
<1>7. SUFFICES /\ a \in 0 .. Iters /\ b \in 0 .. Iters /\ Rates
               /\ tested' - count' - a = tested - count - Held[t]
               /\ encoded' - encodes' - b = encoded - encodes - Encs[t]
               /\ b <= a /\ (~suffix => a = b)
  <2>1. c \in 0 .. Iters
    BY <1>2, <1>6
  <2> HIDE DEF a, b, c
  <2> QED BY <1>3, <2>1 DEF Sums
<1> HIDE DEF a, b, c
<1>8. ASSUME NEW n \in Nat, Exits(t, n), Held[t] = n, tested' = tested, encoded' = encoded
      PROVE  /\ a = 0 /\ b = 0 /\ Rates
             /\ tested' - count' - a = tested - count - Held[t]
             /\ encoded' - encodes' - b = encoded - encodes - Encs[t]
  <2>1. thread'[t] = Idle /\ count' = count + n /\ encodes' = encodes + Encs[t]
    BY <1>2, <1>8 DEF Exits
  <2>2. a = 0 /\ b = 0 /\ c = 0
    BY <1>4, <1>6, <2>1 DEF Idle
  <2> QED BY <1>2, <1>6, <1>8, <2>1, <2>2
<1>9. ASSUME NEW p \in Pcs \ {"off"}, thread'[t] = [thread[t] EXCEPT !.pc = p],
             p \in {"off", "check", "draw"} <=> thread[t].pc \in {"off", "check", "draw"},
             UNCHANGED <<tested, encoded, count, encodes>>
      PROVE  /\ a = Held[t] /\ b = Encs[t] /\ Rates
             /\ tested' - count' - a = tested - count - Held[t]
             /\ encoded' - encodes' - b = encoded - encodes - Encs[t]
  <2>1. thread'[t].pc = p /\ thread'[t].iter = thread[t].iter
        /\ thread'[t].encodes = thread[t].encodes
    BY <1>2, <1>9 DEF States
  <2>2. a = Held[t] /\ b = Encs[t]
    BY <1>2, <1>4, <1>5, <1>6, <1>9, <2>1 DEF Held
  <2>3. c = Iters
    BY <1>6, <2>1
  <2> QED BY <1>2, <1>6, <1>9, <2>2, <2>3
<1>10. CASE CheckDone(t)
  <2>1. thread[t].pc = "check" /\ UNCHANGED <<tested, encoded>> /\ Held[t] = thread[t].iter
    BY <1>10 DEF CheckDone, KernelAt, history, Held
  <2>2. CASE Exits(t, thread[t].iter)
    BY <1>2, <1>8, <2>1, <2>2
  <2>3. CASE Goto(t, "draw") /\ UNCHANGED <<count, encodes>>
    <3>1. thread'[t] = [thread[t] EXCEPT !.pc = "draw"] /\ "draw" \in Pcs \ {"off"}
      BY <1>2, <2>3 DEF Goto, Pcs
    <3> QED BY <1>2, <1>9, <2>1, <2>3, <3>1
  <2> QED BY <1>10, <2>2, <2>3 DEF CheckDone
<1>11. CASE Draw(t)
  <2>1. /\ thread[t].pc = "draw" /\ UNCHANGED <<count, encodes>> /\ tested' = tested + 1
        /\ Held[t] = thread[t].iter
    BY <1>11, DrawIs DEF globals, Held
  <2>2. PICK seed \in Seeds, e \in {0, 1} :
          /\ encoded' = encoded + e /\ (~suffix => e = 1)
          /\ thread' = [thread EXCEPT ![t] =
               IF Matches(seed)
               THEN [pc |-> "claim", iter |-> thread[t].iter, seed |-> seed,
                     encodes |-> thread[t].encodes + e]
               ELSE [pc |-> "check", iter |-> thread[t].iter + 1, seed |-> seed,
                     encodes |-> thread[t].encodes + e]]
    BY <1>11, DrawIs
  <2>3. a = thread[t].iter + 1 /\ b = thread[t].encodes + e /\ c = Iters
    <3>1. CASE Matches(seed)
      BY <1>2, <1>5, <1>6, <2>2, <3>1
    <3>2. CASE ~Matches(seed)
      BY <1>2, <1>4, <1>6, <2>2, <3>2
    <3> QED BY <3>1, <3>2
  <2>4. thread[t].iter < Iters
    BY <2>1 DEF Drawn
  <2> QED BY <1>2, <1>6, <2>1, <2>2, <2>3, <2>4
<1>12. CASE Claim(t) \/ WriteResult(t)
  <2>1. /\ UNCHANGED <<tested, encoded, count, encodes>>
        /\ thread[t].pc \in {"claim"} \cup Parts
        /\ \E p \in {"leave"} \cup Parts : thread'[t] = [thread[t] EXCEPT !.pc = p]
    <3>1. CASE Claim(t)
      BY <1>2, <3>1 DEF Claim, KernelAt, Goto, history, Parts
    <3>2. CASE WriteResult(t)
      BY <1>2, <3>2, CopyIs DEF history, Parts
    <3> QED BY <1>12, <3>1, <3>2
  <2>2. PICK p \in {"leave"} \cup Parts : thread'[t] = [thread[t] EXCEPT !.pc = p]
    BY <2>1
  <2> QED BY <1>2, <1>9, <2>1, <2>2 DEF Pcs, Parts
<1>13. CASE Leave(t)
  <2>1. /\ thread[t].pc = "leave" /\ UNCHANGED <<tested, encoded>>
        /\ Held[t] = thread[t].iter + 1 /\ Exits(t, thread[t].iter + 1)
    BY <1>13 DEF Leave, KernelAt, history, Held
  <2> QED BY <1>2, <1>8, <2>1
<1>14. CASE RunOut(t)
  <2>1. /\ thread[t].pc = "check" /\ UNCHANGED <<tested, encoded>>
        /\ Held[t] = Iters /\ Exits(t, Iters)
    BY <1>14 DEF RunOut, KernelAt, history, Held
  <2> QED BY <1>2, <1>8, <2>1
<1> QED BY <1>10, <1>11, <1>12, <1>13, <1>14 DEF ThreadStep

\* The counters and the sums of what the threads hold keep step.
LEMMA SumsKeep ==
  ASSUME SizesFit, IInv, NEW t \in Threads, ThreadStep(t)
  PROVE  /\ tested' - count' - Cardinality(Under(Held', Iters)) =
              tested - count - Cardinality(Under(Held, Iters))
         /\ encoded' - encodes' - Cardinality(Under(Encs', Iters)) =
              encoded - encodes - Cardinality(Under(Encs, Iters))
         /\ count' + Cardinality(Under(Left', Iters)) <= count + Cardinality(Under(Left, Iters))
<1>1. PICK a \in 0 .. Iters, b \in 0 .. Iters, c \in 0 .. Iters :
        /\ Held' = [Held EXCEPT ![t] = a] /\ Encs' = [Encs EXCEPT ![t] = b]
        /\ Left' = [Left EXCEPT ![t] = c]
        /\ tested' - count' - a = tested - count - Held[t]
        /\ encoded' - encodes' - b = encoded - encodes - Encs[t]
        /\ count' + c <= count + Left[t]
  BY ThreadSums DEF Sums
<1>2. /\ Held \in [Threads -> 0 .. Iters] /\ Encs \in [Threads -> 0 .. Iters]
      /\ Left \in [Threads -> 0 .. Iters] /\ Iters \in Nat
  BY HoldsTyped DEF IInv
<1>3. Types /\ Types'
  BY TypesStep DEF IInv, Next
<1>4. Cardinality(Under(Held', Iters)) = Cardinality(Under(Held, Iters)) + a - Held[t]
  <2>1. Held' \in [Threads -> 0 .. Iters] /\ Held'[t] = a /\
         \A u \in Threads \ {t} : Held'[u] = Held[u]
    BY <1>1, <1>2
  <2> QED BY <1>2, <2>1, UnderChanges
<1>5. Cardinality(Under(Encs', Iters)) = Cardinality(Under(Encs, Iters)) + b - Encs[t]
  <2>1. Encs' \in [Threads -> 0 .. Iters] /\ Encs'[t] = b /\
         \A u \in Threads \ {t} : Encs'[u] = Encs[u]
    BY <1>1, <1>2
  <2> QED BY <1>2, <2>1, UnderChanges
<1>6. Cardinality(Under(Left', Iters)) = Cardinality(Under(Left, Iters)) + c - Left[t]
  <2>1. Left' \in [Threads -> 0 .. Iters] /\ Left'[t] = c /\
         \A u \in Threads \ {t} : Left'[u] = Left[u]
    BY <1>1, <1>2
  <2> QED BY <1>2, <2>1, UnderChanges
<1>7. /\ Cardinality(Under(Held, Iters)) \in Nat /\ Cardinality(Under(Encs, Iters)) \in Nat
      /\ Cardinality(Under(Left, Iters)) \in Nat
  BY <1>2, UnderFinite
<1>8. Held[t] \in Nat /\ Encs[t] \in Nat /\ Left[t] \in Nat /\ a \in Nat /\ b \in Nat /\ c \in Nat
  BY <1>2
<1>9. /\ tested \in Nat /\ count \in Nat /\ encoded \in Nat /\ encodes \in Nat
      /\ tested' \in Nat /\ count' \in Nat /\ encoded' \in Nat /\ encodes' \in Nat
  BY <1>3 DEF Types
<1>10. tested' - count' - Cardinality(Under(Held', Iters)) =
        tested - count - Cardinality(Under(Held, Iters))
  <2>1. tested' - count' - a = tested - count - Held[t]
    BY <1>1
  <2> QED BY <2>1, <1>4, <1>7, <1>8, <1>9
<1>11. encoded' - encodes' - Cardinality(Under(Encs', Iters)) =
        encoded - encodes - Cardinality(Under(Encs, Iters))
  <2>1. encoded' - encodes' - b = encoded - encodes - Encs[t]
    BY <1>1
  <2>2. Cardinality(Under(Encs', Iters)) \in Int
    BY <1>5, <1>7, <1>8
  <2> QED BY <2>1, <2>2, <1>5, <1>7, <1>8, <1>9
<1>12. count' + Cardinality(Under(Left', Iters)) <= count + Cardinality(Under(Left, Iters))
  <2>1. count' + c <= count + Left[t]
    BY <1>1
  <2> QED BY <2>1, <1>6, <1>7, <1>8, <1>9
<1> QED BY <1>10, <1>11, <1>12

LEMMA DrawnStep ==
  ASSUME SizesFit, IInv, [Next]_vars
  PROVE  Drawn'
<1> USE DEF IInv
<1>1. CASE HostStep
  <2>1. CASE thread' = thread
    <3>1. suffix' = suffix /\ Held' = Held /\ Encs' = Encs
      BY <1>1, <2>1, HostKeeps DEF Held, Encs
    <3> QED BY <2>1, <3>1 DEF Drawn, Matches
  <2>2. CASE Launch \/ RoundFails
    <3>1. \A u \in Threads : thread'[u] \in {Idle, Started}
      BY <2>2 DEF Launch, RoundFails
    <3>2. \A u \in Threads : /\ thread'[u].pc \in {"off", "check"}
                             /\ thread'[u].iter = 0 /\ thread'[u].encodes = 0
      BY <3>1 DEF Idle, Started
    <3>3. \A u \in Threads : Held'[u] = 0 /\ Encs'[u] = 0
      BY <3>2 DEF Held, Encs
    <3> QED BY <3>2, <3>3 DEF Drawn, Parts
  <2> QED BY <1>1, <2>1, <2>2, HostKeeps
<1>2. ASSUME NEW t \in Threads, ThreadStep(t)
      PROVE  Drawn'
  <2>1. suffix' = suffix /\ \A u \in Threads \ {t} : thread'[u] = thread[u]
    BY <1>2, ThreadKeeps
  <2>2. thread[t] \in States /\ thread \in [Threads -> States]
    BY DEF Types
  <2>3. Encs'[t] <= Held'[t] /\ (~suffix => Encs'[t] = Held'[t])
    <3>1. PICK a \in 0 .. Iters, b \in 0 .. Iters :
            /\ Held' = [Held EXCEPT ![t] = a] /\ Encs' = [Encs EXCEPT ![t] = b]
            /\ b <= a /\ (~suffix => a = b)
      BY <1>2, ThreadSums DEF Sums
    <3>2. Held'[t] = a /\ Encs'[t] = b
      BY <3>1, HoldsTyped
    <3> QED BY <3>1, <3>2
  <2>4. \A u \in Threads \ {t} : Held'[u] = Held[u] /\ Encs'[u] = Encs[u]
    BY <2>1 DEF Held, Encs
  <2>5. SUFFICES LET me == thread'[t] IN
                 /\ me.pc \notin {"off", "check"} => me.iter < Iters
                 /\ me.pc \in {"claim"} \cup Parts => me.seed \in Seeds /\ Matches(me.seed)
    BY <2>1, <2>3, <2>4 DEF Drawn, Matches
  <2>6. CASE thread'[t] = Idle
    BY <2>6 DEF Idle, Parts
  <2>7. CASE CheckDone(t)
    <3>1. CASE Exits(t, thread[t].iter)
      BY <2>2, <2>6, <3>1 DEF Exits
    <3>2. CASE Goto(t, "draw")
      BY <2>2, <2>7, <3>2 DEF Goto, CheckDone, KernelAt, States, Parts
    <3> QED BY <2>7, <3>1, <3>2 DEF CheckDone
  <2>8. CASE Draw(t)
    <3>1. PICK seed \in Seeds, e \in {0, 1} :
             thread' = [thread EXCEPT ![t] =
                   IF Matches(seed)
                   THEN [pc |-> "claim", iter |-> thread[t].iter, seed |-> seed,
                         encodes |-> thread[t].encodes + e]
                   ELSE [pc |-> "check", iter |-> thread[t].iter + 1, seed |-> seed,
                         encodes |-> thread[t].encodes + e]]
      BY <2>8, DrawIs
    <3>2. thread[t].pc = "draw" /\ thread[t].iter < Iters
      BY <2>8 DEF Draw, KernelAt, Drawn
    <3> QED BY <2>2, <3>1, <3>2 DEF Parts
  <2>9. CASE Claim(t)
    <3>1. /\ thread[t].pc = "claim" /\ thread'[t].iter = thread[t].iter
          /\ thread'[t].seed = thread[t].seed
      BY <2>2, <2>9 DEF Claim, KernelAt, Goto, States
    <3> QED BY <3>1 DEF Drawn
  <2>10. CASE WriteResult(t)
    <3>1. /\ thread[t].pc \in Parts /\ thread'[t].iter = thread[t].iter
          /\ thread'[t].seed = thread[t].seed
      BY <2>2, <2>10, CopyIs DEF States
    <3> QED BY <3>1 DEF Drawn, Parts
  <2>11. CASE Leave(t) \/ RunOut(t)
    BY <2>2, <2>6, <2>11 DEF Leave, RunOut, Exits
  <2> QED BY <1>2, <2>7, <2>8, <2>9, <2>10, <2>11 DEF ThreadStep
<1>3. CASE Finished \/ UNCHANGED vars
  <2>1. UNCHANGED <<thread, suffix>>
    BY <1>3 DEF Finished, vars
  <2>2. Held' = Held /\ Encs' = Encs
    BY <2>1 DEF Held, Encs
  <2> QED BY <2>1, <2>2 DEF Drawn, Matches
<1> QED BY <1>1, <1>2, <1>3 DEF Next

LEMMA CountedStep ==
  ASSUME SizesFit, IInv, [Next]_vars
  PROVE  Counted'
<1> USE DEF IInv
<1>1. CASE HostStep
  <2> USE DEF At, KeepContext, hostVars, globals, history, Launched, Fresh
  <2>1. CASE Launch
    <3>1. /\ count' = 0 /\ tested' = 0 /\ encodes' = 0 /\ encoded' = 0 /\ host' = "sync"
      BY <2>1 DEF Launch, Counted
    <3>2. \A u \in Threads : /\ thread'[u].pc \in {"off", "check"}
                             /\ thread'[u].iter = 0 /\ thread'[u].encodes = 0
      BY <2>1 DEF Launch, Idle, Started
    <3>3. /\ Held' \in [Threads -> 0 .. Iters] /\ Encs' \in [Threads -> 0 .. Iters]
          /\ \A u \in Threads : Held'[u] = 0 /\ Encs'[u] = 0
      BY <3>2, HoldsTyped DEF Held, Encs
    <3>4. Cardinality(Under(Held', Iters)) = 0 /\ Cardinality(Under(Encs', Iters)) = 0
      BY <3>3, HoldsTyped, UnderNone
    <3> QED BY <3>1, <3>4 DEF Counted
  <2>2. CASE Synchronize \/ ReadOut \/ ReadCounts
    <3>1. UNCHANGED <<count, encodes, tested, encoded, thread, suffix>>
      BY <2>2 DEF Synchronize, ReadOut, ReadCounts
    <3>2. Held' = Held /\ Encs' = Encs
      BY <3>1 DEF Held, Encs
    <3>3. host \in Launched /\ host' \in Launched
      BY <2>2 DEF Synchronize, ReadOut, ReadCounts
    <3> QED BY <3>1, <3>2, <3>3 DEF Counted
  <2>3. CASE BeginRound \/ CreateContext \/ Upload \/ Reset \/ ClearOut \/ RetryLaunch
    BY <2>3 DEF BeginRound, CreateContext, Upload, Reset, ClearOut, RetryLaunch, Counted
  <2>4. CASE ReadDone \/ RoundFails \/ Drop
    BY <2>4 DEF ReadDone, RoundFails, Drop, Counted
  <2> QED BY <1>1, <2>1, <2>2, <2>3, <2>4 DEF HostStep
<1>2. ASSUME NEW t \in Threads, ThreadStep(t)
      PROVE  Counted'
  <2>1. host = "sync" /\ host' = "sync" /\ suffix' = suffix
    BY <1>2, ThreadKeeps DEF hostVars
  <2>2. /\ tested = count + Cardinality(Under(Held, Iters))
        /\ encoded = encodes + Cardinality(Under(Encs, Iters))
        /\ ~suffix => encodes = count
    BY <2>1 DEF Counted, Launched
  <2>3. Types'
    BY TypesStep
  <2>4. /\ tested \in Nat /\ count \in Nat /\ encoded \in Nat /\ encodes \in Nat
        /\ tested' \in Nat /\ count' \in Nat /\ encoded' \in Nat /\ encodes' \in Nat
    BY <2>3 DEF Types
  <2>5. /\ Cardinality(Under(Held, Iters)) \in Nat /\ Cardinality(Under(Encs, Iters)) \in Nat
        /\ Cardinality(Under(Held', Iters)) \in Nat /\ Cardinality(Under(Encs', Iters)) \in Nat
    <3>1. Held \in [Threads -> 0 .. Iters] /\ Encs \in [Threads -> 0 .. Iters] /\ Iters \in Nat
      BY HoldsTyped
    <3>2. Held' \in [Threads -> 0 .. Iters] /\ Encs' \in [Threads -> 0 .. Iters]
      BY <1>2, <3>1, ThreadSums DEF Sums
    <3> QED BY <3>1, <3>2, UnderFinite
  <2>6. tested' = count' + Cardinality(Under(Held', Iters))
    <3> DEFINE u == Cardinality(Under(Held, Iters))
               v == Cardinality(Under(Held', Iters))
               x == tested'
               c == count'
    <3>1. x - c - v = tested - count - u
      BY <1>2, SumsKeep
    <3>2. u \in Nat /\ v \in Nat /\ x \in Nat /\ c \in Nat /\ tested = count + u
      BY <2>2, <2>4, <2>5
    <3> HIDE DEF u, v, x, c
    <3>3. x = c + v
      BY <2>4, <3>1, <3>2
    <3> QED BY <3>3 DEF v, x, c
  <2>7. encoded' = encodes' + Cardinality(Under(Encs', Iters))
    <3> DEFINE u == Cardinality(Under(Encs, Iters))
               v == Cardinality(Under(Encs', Iters))
               x == encoded'
               c == encodes'
    <3>1. x - c - v = encoded - encodes - u
      BY <1>2, SumsKeep
    <3>2. u \in Nat /\ v \in Nat /\ x \in Nat /\ c \in Nat /\ encoded = encodes + u
      BY <2>2, <2>4, <2>5
    <3> HIDE DEF u, v, x, c
    <3>3. x = c + v
      BY <2>4, <3>1, <3>2
    <3> QED BY <3>3 DEF v, x, c
  <2>8. ~suffix => encodes' = count'
    <3>1. ~suffix => encodes' - encodes = count' - count
      BY <1>2, ThreadSums DEF Sums
    <3> QED BY <2>2, <2>4, <3>1
  <2> QED BY <2>1, <2>6, <2>7, <2>8 DEF Counted, Fresh, Launched
<1>3. CASE Finished \/ UNCHANGED vars
  <2>1. UNCHANGED vars
    BY <1>3 DEF Finished
  <2>2. Held' = Held /\ Encs' = Encs
    BY <2>1 DEF Held, Encs, vars
  <2> QED BY <2>1, <2>2 DEF Counted, vars, hostVars, globals, history
<1> QED BY <1>1, <1>2, <1>3 DEF Next

LEMMA BoundedStep ==
  ASSUME SizesFit, IInv, [Next]_vars
  PROVE  Bounded'
<1> USE DEF IInv
<1>1. /\ count \in Nat /\ encodes \in Nat /\ encodes <= count /\ Requested * Iters \in Nat
      /\ count + Cardinality(Under(Left, Iters)) <= Requested * Iters
  BY DEF Types, Bounded, SizesFit
<1>2. Left \in [Threads -> 0 .. Iters] /\ Iters \in Nat /\ Left' \in [Threads -> 0 .. Iters]
  BY HoldsTyped DEF Left
<1>3. Cardinality(Under(Left, Iters)) \in Nat /\ Cardinality(Under(Left', Iters)) \in Nat
  BY <1>2, UnderFinite
<1>4. CASE HostStep
  <2>1. \/ count' = count /\ encodes' = encodes
        \/ count' = 0 /\ encodes' = 0
    <3> USE DEF At, KeepContext, globals
    <3>1. CASE BeginRound \/ CreateContext \/ Upload \/ Reset \/ ClearOut \/ RetryLaunch
      BY <3>1 DEF BeginRound, CreateContext, Upload, Reset, ClearOut, RetryLaunch
    <3>2. CASE Launch \/ Synchronize \/ ReadOut \/ ReadCounts \/ ReadDone
      BY <3>2 DEF Launch, Synchronize, ReadOut, ReadCounts, ReadDone
    <3>3. CASE RoundFails \/ Drop
      BY <3>3 DEF RoundFails, Drop
    <3> QED BY <1>4, <3>1, <3>2, <3>3 DEF HostStep
  <2>2. CASE thread' = thread
    <3>1. Left' = Left
      BY <2>2 DEF Left
    <3> QED BY <1>1, <1>3, <2>1, <3>1 DEF Bounded
  <2>3. CASE Launch
    <3>1. count = 0 /\ encodes = 0
      BY <2>3 DEF Launch, At, Counted, Fresh
    <3>2. Cardinality(Under(Left', Iters)) <= Requested * Iters
      BY <1>2, UnderBounded
    <3> QED BY <1>1, <1>3, <2>1, <3>1, <3>2 DEF Bounded
  <2>4. CASE RoundFails
    <3>1. \A u \in Threads : Left'[u] = 0
      BY <2>4 DEF RoundFails, Left, Idle
    <3>2. Cardinality(Under(Left', Iters)) = 0
      BY <1>2, <3>1, UnderNone
    <3> QED BY <1>1, <1>3, <2>1, <3>2 DEF Bounded
  <2> QED BY <1>4, <2>2, <2>3, <2>4, HostKeeps
<1>5. ASSUME NEW t \in Threads, ThreadStep(t)
      PROVE  Bounded'
  <2>1. count' + Cardinality(Under(Left', Iters)) <= count + Cardinality(Under(Left, Iters))
    BY <1>5, SumsKeep
  <2>2. encodes' - encodes <= count' - count
    BY <1>5, ThreadSums DEF Sums
  <2>3. count' \in Nat /\ encodes' \in Nat
    <3>1. Types'
      BY TypesStep
    <3> QED BY <3>1 DEF Types
  <2> DEFINE u == Cardinality(Under(Left, Iters))
             v == Cardinality(Under(Left', Iters))
             c == count'
             e == encodes'
  <2>4. /\ u \in Nat /\ v \in Nat /\ c \in Nat /\ e \in Nat /\ c + v <= count + u
        /\ e - encodes <= c - count /\ count + u <= Requested * Iters
    BY <1>1, <1>3, <2>1, <2>2, <2>3
  <2> HIDE DEF u, v, c, e
  <2>5. c + v <= Requested * Iters /\ e <= c
    BY <1>1, <2>4
  <2> QED BY <2>5 DEF Bounded, u, v, c, e
<1>6. CASE Finished \/ UNCHANGED vars
  <2>1. UNCHANGED vars
    BY <1>6 DEF Finished
  <2>2. Left' = Left
    BY <2>1 DEF Left, vars
  <2> QED BY <2>1, <2>2 DEF Bounded, vars, globals
<1> QED BY <1>4, <1>5, <1>6 DEF Next

-----------------------------------------------------------------------------
(* The writer, what follows the first hit, reading back, memory. *)

LEMMA WriterStep ==
  ASSUME SizesFit, IInv, [Next]_vars
  PROVE  Writer'
<1> USE DEF IInv
<1>1. CASE HostStep
  <2> USE DEF At, KeepContext, globals, Cleared, Fresh, Launched
  <2>1. suffix' = suffix
    BY <1>1, HostKeeps
  <2>2. CASE BeginRound \/ CreateContext \/ Upload \/ Drop
    BY <2>1, <2>2 DEF BeginRound, CreateContext, Upload, Drop, Writer, Writes, OneHit, Matches
  <2>3. CASE Reset
    BY <2>1, <2>3 DEF Reset, Writer, Writes, Rest, Parts
  <2>4. CASE ClearOut
    BY <2>1, <2>4 DEF ClearOut, Writer, Writes, Rest, Parts
  <2>5. CASE RetryLaunch
    BY <2>1, <2>5 DEF RetryLaunch, Writer, Writes, OneHit, Matches
  <2>6. CASE Launch
    <3>1. \A u \in Threads : thread'[u].pc \in {"off", "check"}
      BY <2>6 DEF Launch, Idle, Started
    <3> QED BY <2>1, <2>6, <3>1 DEF Launch, Writer, Writes, Parts
  <2>7. CASE Synchronize \/ ReadOut \/ ReadCounts \/ ReadDone
    BY <2>1, <2>7 DEF Synchronize, ReadOut, ReadCounts, ReadDone, Writer, Writes, OneHit, Matches
  <2>8. CASE RoundFails
    BY <2>1, <2>8 DEF RoundFails, Writer, Writes, Idle, Parts
  <2> QED BY <1>1, <2>2, <2>3, <2>4, <2>5, <2>6, <2>7, <2>8 DEF HostStep
<1>2. ASSUME NEW t \in Threads, ThreadStep(t)
      PROVE  Writer'
  <2>1. /\ host = "sync" /\ host' = "sync" /\ suffix' = suffix
        /\ \A u \in Threads \ {t} : thread'[u] = thread[u]
    BY <1>2, ThreadKeeps DEF hostVars
  <2>2. thread[t] \in States /\ thread \in [Threads -> States] /\ done \in {0, 1} /\
         out \in Outputs
    BY DEF Types
  <2>3. OneHit /\ UNCHANGED out => OneHit'
    BY <2>1 DEF OneHit, Matches
  <2>4. ASSUME thread'[t].pc \in {"off", "check", "draw", "claim"}, ~Writes(t),
         UNCHANGED <<done, out>>
        PROVE  Writer'
    BY <2>1, <2>3, <2>4 DEF Writer, Writes, Cleared, Launched, Fresh, Parts
  <2>5. CASE CheckDone(t)
    <3>1. UNCHANGED <<done, out>> /\ ~Writes(t)
      BY <2>5 DEF CheckDone, KernelAt, Writes, Parts
    <3>2. thread'[t].pc \in {"off", "draw"}
      <4>1. CASE Exits(t, thread[t].iter)
        BY <2>2, <4>1 DEF Exits, Idle
      <4>2. CASE Goto(t, "draw")
        BY <2>2, <4>2 DEF Goto, States
      <4> QED BY <2>5, <4>1, <4>2 DEF CheckDone
    <3> QED BY <2>4, <3>1, <3>2
  <2>6. CASE Draw(t)
    <3>1. UNCHANGED <<done, out>> /\ ~Writes(t)
      BY <2>6 DEF Draw, KernelAt, Writes, Parts, globals
    <3>2. thread'[t].pc \in {"claim", "check"}
      BY <2>2, <2>6, DrawIs
    <3> QED BY <2>4, <3>1, <3>2
  <2>7. CASE Claim(t)
    <3>1. done' = 1 /\ out' = out /\ thread[t].pc = "claim"
          /\ thread'[t].pc = IF done = 0 THEN "seed" ELSE "leave"
      BY <2>2, <2>7 DEF Claim, KernelAt, Goto, States
    <3>2. CASE done = 0
      <4>1. \A u \in Threads : ~Writes(u)
        BY <3>2 DEF Writer, Writes
      <4>2. Before(thread'[t].pc) = {} /\ Writes(t)'
        BY <3>1, <3>2 DEF Before, Writes, Parts
      <4> QED BY <2>1, <3>1, <3>2, <4>1, <4>2 DEF Writer, Writes, Cleared, Launched, Fresh
    <3>3. CASE done = 1
      BY <2>1, <2>3, <3>1, <3>3 DEF Writer, Writes, Cleared, Launched, Fresh, Parts
    <3> QED BY <2>2, <3>2, <3>3
  <2>8. CASE WriteResult(t)
    <3> DEFINE p == thread[t].pc
               s == thread[t].seed
               q == thread'[t].pc
    <3>1. /\ p \in Parts /\ out' = [out EXCEPT ![p] = s] /\ done' = done
          /\ q = CASE p = "seed" -> "private" [] p = "private" -> "public"
                   [] p = "public" -> "address" [] OTHER -> "leave"
      BY <2>2, <2>8, CopyIs DEF States
    <3>2. done = 1 /\ \A u \in Threads \ {t} : ~Writes(u)
      BY <3>1 DEF Writer, Writes
    <3>3. s \in Seeds /\ Matches(s) /\ thread'[t].seed = s
      <4>1. s \in Seeds /\ Matches(s)
        BY <3>1 DEF Drawn
      <4>2. thread'[t].seed = s
        BY <2>2, <2>8, CopyIs DEF States
      <4> QED BY <4>1, <4>2
    <3>4. out'[p] = s /\ \A r \in Before(p) : out'[r] = s
      <4>1. \A r \in Before(p) : r \in Parts /\ r # p /\ out[r] = s
        BY <3>1 DEF Writer, Writes, Before, Parts
      <4> QED BY <2>2, <3>1, <4>1 DEF Outputs
    <3>5. CASE p = "address"
      <4>1. OneHit'
        <5>1. \A r \in Parts : out'[r] = s
          BY <3>4, <3>5 DEF Before, Parts
        <5> QED BY <2>1, <3>3, <5>1 DEF OneHit, Matches
      <4>2. q = "leave"
        BY <3>1, <3>5
      <4> QED BY <2>1, <3>1, <3>2, <4>1, <4>2 DEF Writer, Writes, Cleared, Launched, Fresh, Parts
    <3>6. CASE p # "address"
      <4>1. q \in Parts /\ Before(q) = Before(p) \cup {p}
        BY <3>1, <3>6 DEF Before, Parts
      <4>2. Writes(t)' /\ \A r \in Before(q) : out'[r] = thread'[t].seed
        BY <3>3, <3>4, <4>1 DEF Writes
      <4> QED BY <2>1, <3>1, <3>2, <4>1, <4>2 DEF Writer, Writes, Cleared, Launched, Fresh, Parts
    <3> QED BY <3>5, <3>6
  <2>9. CASE Leave(t) \/ RunOut(t)
    <3>1. UNCHANGED <<done, out>> /\ ~Writes(t) /\ thread'[t].pc = "off"
      BY <2>2, <2>9 DEF Leave, RunOut, Exits, KernelAt, Writes, Parts, Idle
    <3> QED BY <2>4, <3>1
  <2> QED BY <1>2, <2>5, <2>6, <2>7, <2>8, <2>9 DEF ThreadStep
<1>3. CASE Finished \/ UNCHANGED vars
  BY <1>3 DEF Finished, Writer, Writes, OneHit, Matches, vars, hostVars, globals
<1> QED BY <1>1, <1>2, <1>3 DEF Next

\* What a thread draws after the first hit it takes from its room.
LEMMA RoomShrinks ==
  ASSUME SizesFit, IInv, NEW t \in Threads, ThreadStep(t), done = 1
  PROVE  /\ late' \in {late, late + 1} /\ Room'[t] \in 0 .. CheckEvery
         /\ late' = late => Room'[t] <= Room[t]
         /\ late' = late + 1 => Room'[t] + 1 <= Room[t]
<1> USE DEF IInv
<1> DEFINE since == thread[t].iter % CheckEvery
<1>1. /\ thread[t] \in States /\ thread \in [Threads -> States] /\ late \in Nat
      /\ thread[t].iter \in Nat /\ CheckEvery \in Nat \ {0} /\ Room[t] \in 0 .. CheckEvery
  BY HoldsTyped DEF Types, States, SizesFit
<1>2. since \in 0 .. CheckEvery - 1
  <2> DEFINE i == thread[t].iter
  <2>1. i \in Nat /\ CheckEvery \in Nat \ {0}
    BY <1>1
  <2> HIDE DEF i
  <2>2. i % CheckEvery \in 0 .. CheckEvery - 1
    BY <2>1, Remainder
  <2> QED BY <2>2 DEF i
<1>3. Room[t] = IF thread[t].pc = "draw" \/ (thread[t].pc = "check" /\ since # 0)
                THEN CheckEvery - since ELSE 0
  BY DEF Room
<1> DEFINE room == Room'[t]
<1>4. ASSUME thread'[t].pc \notin {"check", "draw"}
      PROVE  room = 0
  BY <1>4 DEF Room
<1>5. ASSUME UNCHANGED late, room = 0
      PROVE  /\ late' \in {late, late + 1} /\ room \in 0 .. CheckEvery
             /\ late' = late => room <= Room[t]
             /\ late' = late + 1 => room + 1 <= Room[t]
  <2>1. late' = late /\ late + 1 # late /\ 0 <= Room[t] /\ 0 \in 0 .. CheckEvery
    BY <1>1, <1>5
  <2> HIDE DEF room
  <2> QED BY <1>5, <2>1
<1>6. CASE CheckDone(t)
  <2>1. UNCHANGED late
    BY <1>6 DEF CheckDone, history
  <2>2. CASE Exits(t, thread[t].iter)
    <3>1. thread'[t].pc = "off"
      BY <1>1, <2>2 DEF Exits, Idle
    <3> QED BY <1>4, <1>5, <2>1, <3>1
  <2>3. CASE since # 0 /\ Goto(t, "draw")
    <3>1. thread[t].pc = "check" /\ thread'[t].pc = "draw" /\ thread'[t].iter = thread[t].iter
      BY <1>1, <1>6, <2>3 DEF CheckDone, KernelAt, Goto, States
    <3>2. room = CheckEvery - since
      BY <3>1 DEF Room
    <3>3. room = Room[t]
      BY <1>3, <2>3, <3>1, <3>2
    <3>4. late + 1 # late
      BY <1>1
    <3>5. room \in 0 .. CheckEvery /\ room <= Room[t]
      BY <1>1, <3>3
    <3> QED BY <2>1, <3>4, <3>5
  <2> QED BY <1>6, <2>2, <2>3 DEF CheckDone
<1>7. CASE Draw(t)
  <2>1. thread[t].pc = "draw" /\ late' = late + 1
    BY <1>7, DrawIs
  <2>2. Room[t] = CheckEvery - since /\ late + 1 # late
    BY <1>1, <1>3, <2>1
  <2>3. room = 0 \/ room = CheckEvery - (since + 1)
    <3>1. thread'[t].pc = "claim" \/ (thread'[t].pc = "check" /\
           thread'[t].iter = thread[t].iter + 1)
      BY <1>1, <1>7, DrawIs
    <3>2. CASE thread'[t].pc = "claim"
      BY <1>4, <3>2
    <3>3. CASE thread'[t].pc = "check" /\ thread'[t].iter = thread[t].iter + 1
      <4> DEFINE next == thread'[t].iter % CheckEvery
      <4>1. next = IF since + 1 = CheckEvery THEN 0 ELSE since + 1
        BY <1>1, <3>3, NextRemainder
      <4>2. room = IF next # 0 THEN CheckEvery - next ELSE 0
        BY <3>3 DEF Room
      <4> HIDE DEF next, room, since
      <4> QED BY <1>1, <1>2, <4>1, <4>2
    <3> QED BY <3>1, <3>2, <3>3
  <2>4. room \in 0 .. CheckEvery /\ room + 1 <= Room[t]
    <3> DEFINE q == Room[t]
    <3>1. q \in Nat /\ q = CheckEvery - since
      BY <1>1, <2>2
    <3> HIDE DEF room, since, q
    <3>2. room \in 0 .. CheckEvery /\ room + 1 <= q
      BY <1>1, <1>2, <2>3, <3>1
    <3> QED BY <3>2 DEF q
  <2> QED BY <2>1, <2>2, <2>4
<1>8. CASE Claim(t)
  <2>1. thread'[t].pc = "leave" /\ UNCHANGED late
    BY <1>1, <1>8 DEF Claim, Goto, States, history
  <2> QED BY <1>4, <1>5, <2>1
<1>9. CASE WriteResult(t)
  <2>1. thread'[t].pc \notin {"check", "draw"} /\ UNCHANGED late
    BY <1>1, <1>9, CopyIs DEF States, history
  <2> QED BY <1>4, <1>5, <2>1
<1>10. CASE Leave(t) \/ RunOut(t)
  <2>1. thread'[t].pc = "off" /\ UNCHANGED late
    BY <1>1, <1>10 DEF Leave, RunOut, Exits, Idle, history
  <2> QED BY <1>4, <1>5, <2>1
<1> QED BY <1>6, <1>7, <1>8, <1>9, <1>10 DEF ThreadStep

LEMMA LateStep ==
  ASSUME SizesFit, IInv, [Next]_vars
  PROVE  Late'
<1> USE DEF IInv
<1> DEFINE Bound == (Requested - 1) * CheckEvery
           u     == Cardinality(Under(Room, CheckEvery))
           v     == Cardinality(Under(Room', CheckEvery))
<1>1. /\ CheckEvery \in Nat \ {0} /\ CheckEvery \in Nat /\ Bound \in Nat /\ late \in Nat
      /\ done \in {0, 1}
  BY DEF Types, SizesFit
<1>2. Room \in [Threads -> 0 .. CheckEvery] /\ u \in Nat
  BY <1>1, HoldsTyped, UnderFinite
<1>3. CASE HostStep
  <2> USE DEF At, KeepContext, globals, history
  <2>1. ASSUME \A t \in Threads : thread'[t] = Idle
        PROVE  v = 0
    <3>1. Room' \in [Threads -> 0 .. CheckEvery] /\ \A t \in Threads : Room'[t] = 0
      BY <1>1, <2>1 DEF Room, Idle
    <3> QED BY <1>1, <3>1, UnderNone
  <2>2. CASE BeginRound
    <3>1. \A t \in Threads : thread'[t] = Idle
      BY <2>2 DEF BeginRound, Rest
    <3>2. v = 0 /\ late' = 0
      BY <2>1, <2>2, <3>1 DEF BeginRound
    <3> QED BY <1>1, <3>2 DEF Late
  <2>3. CASE RoundFails
    <3>1. v = 0 /\ UNCHANGED <<late, done>> /\ host' = "idle"
      BY <2>1, <2>3 DEF RoundFails
    <3>2. done = 1 => late + 0 <= Bound
      BY <1>1, <1>2 DEF Late
    <3> QED BY <3>1, <3>2 DEF Late
  <2>4. CASE Launch
    <3>1. done' = 0 /\ late' = late /\ late = 0
      BY <2>4 DEF Launch, Writer, Fresh, Late
    <3> QED BY <3>1 DEF Late
  <2>5. CASE Reset
    BY <2>5 DEF Reset, Late
  <2>6. CASE CreateContext \/ Upload
    <3>1. Room' = Room
      BY <2>6 DEF CreateContext, Upload, Room
    <3> QED BY <2>6, <3>1 DEF CreateContext, Upload, Late
  <2>7. CASE ClearOut \/ RetryLaunch \/ Synchronize \/ ReadOut \/ ReadCounts \/ ReadDone \/ Drop
    <3>1. /\ UNCHANGED <<late, done, thread>>
          /\ host' \notin {"create", "upload", "reset"}
      BY <2>7 DEF ClearOut, RetryLaunch, Synchronize, ReadOut, ReadCounts, ReadDone, Drop
    <3>2. Room' = Room
      BY <3>1 DEF Room
    <3> QED BY <3>1, <3>2 DEF Late
  <2> QED BY <1>3, <2>2, <2>3, <2>4, <2>5, <2>6, <2>7 DEF HostStep
<1>4. ASSUME NEW t \in Threads, ThreadStep(t)
      PROVE  Late'
  <2>1. host' = "sync" /\ \A s \in Threads \ {t} : thread'[s] = thread[s]
    BY <1>4, ThreadKeeps DEF hostVars
  <2>2. \A s \in Threads \ {t} : Room'[s] = Room[s]
    BY <2>1 DEF Room
  <2>3. CASE done = 1
    <3>1. done' = 1
      <4>1. CASE WriteResult(t)
        BY <2>3, <4>1, CopyIs
      <4> QED BY <1>4, <2>3, <4>1, DrawIs DEF ThreadStep, CheckDone, Claim, Leave, RunOut, globals
    <3> DEFINE l == late'
               r == Room'[t]
               q == Room[t]
    <3>2. /\ l \in {late, late + 1} /\ r \in 0 .. CheckEvery /\ q \in 0 .. CheckEvery
          /\ l = late => r <= q
          /\ l = late + 1 => r + 1 <= q
      BY <1>2, <1>4, <2>3, RoomShrinks
    <3>3. Room' \in [Threads -> 0 .. CheckEvery]
      BY <1>2, <2>2, <3>2 DEF Room
    <3>4. v = u + r - q /\ v \in Nat
      BY <1>1, <1>2, <2>2, <3>3, UnderChanges, UnderFinite
    <3>5. late + u <= Bound
      BY <2>3 DEF Late
    <3> HIDE DEF l, r, q, u, v, Bound
    <3>6. l + v <= Bound
      BY <1>1, <1>2, <3>2, <3>4, <3>5
    <3> QED BY <2>1, <3>1, <3>6 DEF Late, l, v, Bound
  <2>4. CASE done = 0 /\ Claim(t)
    <3>1. done' = 1 /\ late' = 0 /\ thread'[t].pc = "seed"
      BY <2>4 DEF Claim, Late, history, Goto, Types, States
    <3>2. Room' \in [Threads -> 0 .. CheckEvery] /\ Room'[t] = 0
      <4>1. Room'[t] = 0
        BY <3>1 DEF Room
      <4> QED BY <1>1, <1>2, <2>2, <4>1 DEF Room
    <3>3. v <= Bound /\ v \in Nat
      BY <1>1, <3>2, UnderBounded, UnderFinite
    <3> QED BY <2>1, <3>1, <3>3 DEF Late
  <2>5. CASE done = 0 /\ ~Claim(t)
    <3>1. done' = 0
      <4>1. CASE WriteResult(t)
        BY <2>5, <4>1, CopyIs
      <4> QED BY <1>4, <2>5, <4>1, DrawIs DEF ThreadStep, CheckDone, Leave, RunOut, globals
    <3>2. late' = late /\ late = 0
      <4>1. CASE WriteResult(t)
        BY <2>5, <4>1, CopyIs DEF Late, history
      <4> QED BY <1>4, <2>5, <4>1, DrawIs DEF ThreadStep, CheckDone, Leave, RunOut, history, Late
    <3> QED BY <3>1, <3>2 DEF Late
  <2> QED BY <1>1, <2>3, <2>4, <2>5
<1>5. CASE Finished \/ UNCHANGED vars
  <2>1. UNCHANGED vars
    BY <1>5 DEF Finished
  <2>2. Room' = Room
    BY <2>1 DEF Room, vars
  <2> QED BY <2>1, <2>2 DEF Late, vars, hostVars, globals, history
<1> QED BY <1>3, <1>4, <1>5 DEF Next

\* With every thread gone nothing is held back.
LEMMA AllGone ==
  ASSUME SizesFit, IInv, host = "readDone"
  PROVE  tested = count /\ encoded = encodes
<1> USE DEF IInv
<1>1. \A t \in Threads : thread[t] = Idle
  BY DEF Rest
<1>2. \A t \in Threads : Held[t] = 0 /\ Encs[t] = 0
  BY <1>1 DEF Held, Encs, Idle
<1>3. Cardinality(Under(Held, Iters)) = 0 /\ Cardinality(Under(Encs, Iters)) = 0
  BY <1>2, HoldsTyped, UnderNone
<1> QED BY <1>3 DEF Counted, Launched, Types

LEMMA ReadStep ==
  ASSUME SizesFit, IInv, [Next]_vars
  PROVE  Read'
<1>0. host = "readDone" => tested = count /\ encoded = encodes
  BY AllGone
<1> USE DEF IInv
<1>1. CASE HostStep
  <2> USE DEF At, KeepContext, globals, history, ResultIsOne, CountsExact, Returned, Read
  <2>1. suffix' = suffix
    BY <1>1, HostKeeps
  <2>2. CASE BeginRound \/ CreateContext \/ Upload \/ Reset \/ ClearOut \/ RetryLaunch
    BY <2>2 DEF BeginRound, CreateContext, Upload, Reset, ClearOut, RetryLaunch
  <2>3. CASE Launch \/ Synchronize
    BY <2>3 DEF Launch, Synchronize
  <2>4. CASE ReadOut \/ ReadCounts
    <3>1. CASE ReadOut
      <4>1. ret'.out = out /\ out' = out /\ host' = "readCounts" /\ UNCHANGED missed
        BY <3>1 DEF ReadOut, Types
      <4> QED BY <4>1
    <3>2. CASE ReadCounts
      <4>1. /\ ret'.out = ret.out /\ ret'.count = count /\ ret'.encodes = encodes
            /\ host = "readCounts" /\ host' = "readDone" /\ UNCHANGED <<globals, missed>>
        BY <3>2 DEF ReadCounts, Types
      <4> QED BY <4>1
    <3> QED BY <2>4, <3>1, <3>2
  <2>5. CASE ReadDone
    <3>1. /\ host = "readDone" /\ host' = "idle" /\ ret' = [ret EXCEPT !.done = done]
          /\ UNCHANGED <<tested, encoded, missed>>
      BY <2>5 DEF ReadDone
    <3>2. ret'.done = done /\ ret'.out = out /\ ret'.count = count /\ ret'.encodes = encodes
      BY <3>1 DEF Types
    <3>3. \A t \in Threads : ~Writes(t)
      BY <3>1 DEF Rest, Writes, Parts
    <3>4. (done = 0 => out = Zeros) /\ (done = 1 => OneHit)
      BY <3>1, <3>3 DEF Writer, Cleared, Launched
    <3>5. tested = count /\ encoded = encodes /\ (~suffix => encodes = count)
      BY <1>0, <3>1 DEF Counted, Launched
    <3>6. ResultIsOne'
      <4>1. done = 1 => \E s \in Seeds : Matches(s)' /\ \A p \in Parts : ret'.out[p] = s
        BY <2>1, <3>2, <3>4 DEF OneHit, Matches
      <4> QED BY <3>1, <3>2, <3>4, <4>1
    <3>7. CountsExact'
      BY <2>1, <3>1, <3>2, <3>5
    <3> QED BY <3>1, <3>6, <3>7
  <2>6. CASE RoundFails \/ Drop
    BY <2>6 DEF RoundFails, Drop
  <2> QED BY <1>1, <2>2, <2>3, <2>4, <2>5, <2>6 DEF HostStep
<1>2. ASSUME NEW t \in Threads, ThreadStep(t)
      PROVE  Read'
  <2>1. host' = "sync"
    BY <1>2, ThreadKeeps DEF hostVars
  <2>2. ~missed'
    <3>1. ~missed
      BY DEF Read
    <3>2. CASE Draw(t)
      BY <3>1, <3>2, DrawIs
    <3>3. CASE WriteResult(t)
      BY <3>1, <3>3, CopyIs DEF history
    <3> QED BY <1>2, <3>1, <3>2, <3>3 DEF ThreadStep, CheckDone, Claim, Leave, RunOut, history
  <2> QED BY <2>1, <2>2 DEF Read, ResultIsOne, CountsExact, Returned
<1>3. CASE Finished \/ UNCHANGED vars
  BY <1>3 DEF Finished, Read, ResultIsOne, CountsExact, Returned, Matches, vars, hostVars,
         globals,
              history
<1> QED BY <1>1, <1>2, <1>3 DEF Next

LEMMA MemoryStep ==
  ASSUME SizesFit, IInv, [Next]_vars
  PROVE  Memory'
<1> USE DEF IInv, Memory, BufferOwned
<1>1. CASE HostStep
  <2> USE DEF At, KeepContext
  <2>1. CASE BeginRound \/ CreateContext \/ Upload \/ Reset \/ ClearOut \/ RetryLaunch
    BY <2>1 DEF BeginRound, CreateContext, Upload, Reset, ClearOut, RetryLaunch
  <2>2. CASE Launch \/ Synchronize \/ ReadOut \/ ReadCounts \/ ReadDone
    BY <2>2 DEF Launch, Synchronize, ReadOut, ReadCounts, ReadDone
  <2>3. CASE RoundFails \/ Drop
    BY <2>3 DEF RoundFails, Drop
  <2> QED BY <1>1, <2>1, <2>2, <2>3 DEF HostStep
<1>2. ASSUME NEW t \in Threads, ThreadStep(t)
      PROVE  Memory'
  BY <1>2, ThreadKeeps DEF hostVars
<1>3. CASE Finished \/ UNCHANGED vars
  BY <1>3 DEF Finished, vars, hostVars
<1> QED BY <1>1, <1>2, <1>3 DEF Next

-----------------------------------------------------------------------------
(* The theorems. *)

LEMMA InitIInv ==
  ASSUME SizesFit, Init
  PROVE  IInv
<1> USE DEF Init
<1>1. Types
  <2>1. thread \in [Threads -> States]
    BY StatesHold
  <2>2. rounds \in 0 .. MaxRounds /\ launched \in 0 .. Requested
    BY DEF SizesFit
  <2> QED BY <2>1, <2>2, StatesHold DEF Types, Hosts
<1>2. Rest /\ Writer
  BY DEF Rest, Writer, Writes, Idle, Cleared, Fresh, Launched, Parts
<1>3. Drawn
  <2>1. \A t \in Threads : Held[t] = 0 /\ Encs[t] = 0
    BY DEF Held, Encs, Idle
  <2> QED BY <2>1 DEF Drawn, Idle, Parts
<1>4. Read /\ Counted /\ Memory /\ Late
  BY DEF Read, ResultIsOne, CountsExact, Returned, Counted, Launched, Fresh, Memory, BufferOwned,
         Late
<1>5. Bounded
  <2>1. Left \in [Threads -> 0 .. Iters] /\ Iters \in Nat /\ \A t \in Threads : Left[t] = 0
    BY DEF Left, Idle, SizesFit
  <2>2. Cardinality(Under(Left, Iters)) = 0 /\ Requested * Iters \in Nat
    BY <2>1, UnderNone DEF SizesFit
  <2> QED BY <2>2 DEF Bounded
<1> QED BY <1>1, <1>2, <1>3, <1>4, <1>5 DEF IInv

LEMMA IInvStep ==
  ASSUME SizesFit, IInv, [Next]_vars
  PROVE  IInv'
BY TypesStep, RestStep, DrawnStep, WriterStep, ReadStep, CountedStep, BoundedStep, LateStep,
   MemoryStep DEF IInv

\* The inductive invariant holds throughout every run of a device's rounds,
\* whatever their sizes and the pattern.
THEOREM Invariance ==
  ASSUME SizesFit
  PROVE  Spec => []IInv
<1>1. Init => IInv
  BY InitIInv
<1>2. IInv /\ [Next]_vars => IInv'
  BY IInvStep
<1> QED BY <1>1, <1>2, PTL DEF Spec

\* The counters fit: neither exceeds the work of the threads asked for.
LEMMA Typed ==
  ASSUME SizesFit, IInv
  PROVE  TypeOK
<1>1. /\ count + Cardinality(Under(Left, Iters)) <= Requested * Iters /\ encodes <= count
      /\ count \in Nat /\ encodes \in Nat
  BY DEF IInv, Bounded, Types
<1>2. Cardinality(Under(Left, Iters)) \in Nat
  BY HoldsTyped, UnderFinite DEF IInv
<1>3. count \in 0 .. Requested * Iters /\ encodes \in 0 .. Requested * Iters
  <2>1. Requested * Iters \in Nat
    BY DEF SizesFit
  <2> QED BY <1>1, <1>2, <2>1
<1> QED BY <1>3 DEF IInv, Types, TypeOK, States

\* Each variable of the round keeps its type throughout, whatever the sizes.
THEOREM TypesHold ==
  ASSUME SizesFit
  PROVE  Spec => []TypeOK
<1>1. IInv => TypeOK
  BY Typed
<1> QED BY <1>1, Invariance, PTL

\* What a round returns is one whole candidate that matches, or nothing when
\* nothing was found: however many threads have a match at once.
THEOREM ResultHolds ==
  ASSUME SizesFit
  PROVE  Spec => []ResultIsOne
<1>1. IInv => ResultIsOne
  BY DEF IInv, Read
<1> QED BY <1>1, Invariance, PTL

\* Both counts a round returns are exact, whoever stopped early; without a
\* suffix every candidate is encoded.
THEOREM CountsHold ==
  ASSUME SizesFit
  PROVE  Spec => []CountsExact
<1>1. IInv => CountsExact
  BY DEF IInv, Read
<1> QED BY <1>1, Invariance, PTL

\* No candidate that matches is passed over, for every set of seeds whose
\* residue test rejects none that ends with the suffix.
THEOREM NothingIsMissed ==
  ASSUME SizesFit
  PROVE  Spec => []NothingMissed
<1>1. IInv => NothingMissed
  BY DEF IInv, Read, NothingMissed
<1> QED BY <1>1, Invariance, PTL

\* After the first hit the threads together test no more than CheckEvery
\* candidates for each thread but the one that has it.
LEMMA Stops ==
  ASSUME SizesFit, IInv
  PROVE  StopsSoon
<1>1. late \in Nat /\ done \in {0, 1} /\ (Requested - 1) * CheckEvery \in Nat
  BY DEF IInv, Types, SizesFit
<1>2. Cardinality(Under(Room, CheckEvery)) \in Nat
  BY HoldsTyped, UnderFinite DEF IInv
<1> QED BY <1>1, <1>2 DEF IInv, Late, StopsSoon

\* So the threads stop soon in every run of the device's rounds.
THEOREM StopHolds ==
  ASSUME SizesFit
  PROVE  Spec => []StopsSoon
<1>1. IInv => StopsSoon
  BY Stops
<1> QED BY <1>1, Invariance, PTL

\* The device's buffer is used only while it is allocated and is gone with the
\* worker, through failed rounds and rounds that use the context again.
THEOREM BufferHolds ==
  ASSUME SizesFit
  PROVE  Spec => []BufferOwned
<1>1. IInv => BufferOwned
  BY DEF IInv, Memory
<1> QED BY <1>1, Invariance, PTL
=============================================================================
