---------------------------- MODULE MCHost_proofs ----------------------------
(***************************************************************************)
(* Proofs about CpuSearch, for any finite set of searches, any distance    *)
(* between two publications and any count; about the progress display, for *)
(* any number of candidates and results; and that they carry over to       *)
(* HostSpec.                                                               *)
(*                                                                         *)
(* The inductive invariant of CpuSearch says where the winner of a round   *)
(* is on its way (Winner), which round a search's walk is from (Walks),    *)
(* how much of what it may test before its next look at the clock a search *)
(* has used (Clock), that a round begun after a late result tests nothing  *)
(* (LastRound), and which candidates progress.attempts lacks (Lag).        *)
(*                                                                         *)
(* The loads of a display thread's wake-up are relaxed, so nothing can be  *)
(* said of a line that is drawn while the caller counts, except that it is *)
(* behind. The last line is exact because the thread decides to finish     *)
(* BEFORE it loads: once the stop was sent no store is outstanding, so     *)
(* each load that follows is final. That is what Finishing says.           *)
(***************************************************************************)
EXTENDS MCHost, FiniteSetTheorems, TLAPS

Places  == {"waiting", "top", "leave", "test", "publish", "swap", "ended"}
Walking == {"top", "leave", "test", "publish", "swap"}

TypeOK ==
  /\ main \in {"rounds", "search", "report", "done"} /\ round \in Nat
  /\ stopped \in BOOLEAN /\ expired \in BOOLEAN /\ matched \in BOOLEAN
  /\ pc \in [Searches -> Places] /\ pending \in [Searches -> 0 .. Publish]
  /\ walk \in [Searches -> Nat] /\ late \in [Searches -> Nat]
  /\ somes \in SUBSET Searches /\ uncounted \in Int
  /\ exported \in Seq(Searches \X Nat) /\ lateHits \in Nat

\* Searches run in a round only.
AtRest == main # "search" => \A s \in Searches : pc[s] = "ended"

\* The flag is set by the one search that returns its candidate; until then a
\* match is on its way to the flag.
Winner ==
  /\ \A s, t \in somes : s = t
  /\ stopped <=> somes # {}
  /\ \A s \in somes : pc[s] = "ended"
  /\ matched => somes # {} \/ \E s \in Searches : pc[s] \in {"publish", "swap"}
  /\ main = "report" => somes # {}

\* A running search and the winner walk from this round's start; what has been
\* printed comes from walks of earlier rounds, each from its own.
Walks ==
  /\ \A s \in Searches : pc[s] \in Walking \/ s \in somes => walk[s] = round
  /\ \A i \in 1 .. Len(exported) :
       exported[i][2] <= round /\ (main \in {"search", "report"} => exported[i][2] < round)
  /\ \A i, j \in 1 .. Len(exported) : i < j => exported[i][2] < exported[j][2]

\* After the deadline a search tests what fits before its next publication.
Clock ==
  /\ ~expired => lateHits = 0 /\ \A s \in Searches : late[s] = 0
  /\ \A s \in Searches :
       /\ late[s] <= Publish
       /\ pc[s] = "test" => pending[s] < Publish
       /\ pc[s] = "test" \/ (pc[s] = "top" /\ pending[s] # 0) => late[s] <= pending[s]

\* A round begun after a late result was accepted comes to nothing.
LastRound ==
  /\ lateHits <= 1
  /\ lateHits = 1 =>
       /\ expired /\ main # "report"
       /\ main = "search" =>
            /\ somes = {}
            /\ \A s \in Searches : /\ pc[s] \in {"waiting", "top", "leave", "ended"}
                                   /\ pc[s] = "top" => pending[s] = 0

\* The candidates tested and not published: the k-th of search s since its last
\* publication.
Unpublished ==
  {p \in Searches \X (1 .. Publish) :
     pc[p[1]] \in {"top", "leave", "test", "publish"} /\ p[2] <= pending[p[1]]}

Lag == uncounted = Cardinality(Unpublished)

IInv == TypeOK /\ AtRest /\ Winner /\ Walks /\ Clock /\ LastRound /\ Lag

-----------------------------------------------------------------------------
(* Every step keeps the inductive invariant, one conjunct at a time. *)

\* Every variable keeps its type.
LEMMA TypeOKStep == ASSUME IInv, [Next]_vars PROVE TypeOK'
<1> USE PublishAssumption DEF IInv, TypeOK, Places, Clock, vars, mainVars, searchVars
<1>1. ASSUME NEW s \in Searches, Take(s) PROVE TypeOK'
  BY <1>1 DEF Take, Goto
<1>2. ASSUME NEW s \in Searches, Skip(s) PROVE TypeOK'
  BY <1>2 DEF Skip, Goto
<1>3. ASSUME NEW s \in Searches, PublishPending(s) PROVE TypeOK'
  BY <1>3 DEF PublishPending, Goto
<1>4. ASSUME NEW s \in Searches, Check(s) PROVE TypeOK'
  BY <1>4 DEF Check, Goto
<1>5. ASSUME NEW s \in Searches, Leave(s) PROVE TypeOK'
  BY <1>5 DEF Leave, Goto
<1>6. ASSUME NEW s \in Searches, Test(s) PROVE TypeOK'
  BY <1>6 DEF Test, Goto
<1>7. ASSUME NEW s \in Searches, PublishMatch(s) PROVE TypeOK'
  BY <1>7 DEF PublishMatch, Goto
<1>8. ASSUME NEW s \in Searches, Swap(s) PROVE TypeOK'
  BY <1>8 DEF Swap, Goto
<1>9. CASE BeginRound
  <2>1. pc' \in [Searches -> Places] /\ round' \in Nat
    BY <1>9 DEF BeginRound
  <2>2. main' = "search" /\ somes' = {} /\ stopped' = FALSE /\ matched' = FALSE
    BY <1>9 DEF BeginRound
  <2>3. UNCHANGED <<exported, lateHits, pending, walk, late, expired, uncounted>>
    BY <1>9 DEF BeginRound
  <2> QED BY <2>1, <2>2, <2>3
<1>10. CASE EndRound
  BY <1>10 DEF EndRound
<1>11. CASE Report
  <2>1. PICK s \in somes : exported' = Append(exported, <<s, walk[s]>>)
    BY <1>11 DEF Report
  <2>2. <<s, walk[s]>> \in Searches \X Nat
    BY <2>1
  <2> QED BY <1>11, <2>1, <2>2 DEF Report
<1>12. CASE EndLoop
  BY <1>12 DEF EndLoop
<1>13. CASE Expire
  BY <1>13 DEF Expire
<1>14. CASE UNCHANGED vars
  BY <1>14
<1> HIDE DEF IInv, TypeOK, Places, Clock, vars, mainVars, searchVars
<1> QED BY <1>1, <1>2, <1>3, <1>4, <1>5, <1>6, <1>7, <1>8, <1>9, <1>10, <1>11, <1>12, <1>13, <1>14
       DEF Next, MainStep, RunStep, PoolStep, Finished, vars, mainVars, searchVars

\* Searches run in a round only.
LEMMA AtRestStep == ASSUME IInv, [Next]_vars PROVE AtRest'
<1> USE DEF IInv, TypeOK, AtRest, Places, vars, mainVars, searchVars
<1>1. ASSUME NEW s \in Searches, Take(s) PROVE AtRest'
  BY <1>1 DEF Take, Goto
<1>2. ASSUME NEW s \in Searches, Skip(s) PROVE AtRest'
  BY <1>2 DEF Skip, Goto
<1>3. ASSUME NEW s \in Searches, PublishPending(s) PROVE AtRest'
  BY <1>3 DEF PublishPending, Goto
<1>4. ASSUME NEW s \in Searches, Check(s) PROVE AtRest'
  BY <1>4 DEF Check, Goto
<1>5. ASSUME NEW s \in Searches, Leave(s) PROVE AtRest'
  BY <1>5 DEF Leave, Goto
<1>6. ASSUME NEW s \in Searches, Test(s) PROVE AtRest'
  BY <1>6 DEF Test, Goto
<1>7. ASSUME NEW s \in Searches, PublishMatch(s) PROVE AtRest'
  BY <1>7 DEF PublishMatch, Goto
<1>8. ASSUME NEW s \in Searches, Swap(s) PROVE AtRest'
  BY <1>8 DEF Swap, Goto
<1>9. CASE BeginRound
  BY <1>9 DEF BeginRound
<1>10. CASE EndRound
  BY <1>10 DEF EndRound
<1>11. CASE Report
  BY <1>11 DEF Report
<1>12. CASE EndLoop
  BY <1>12 DEF EndLoop
<1>13. CASE Expire
  BY <1>13 DEF Expire
<1>14. CASE UNCHANGED vars
  BY <1>14
<1> HIDE DEF IInv, TypeOK, AtRest, Places, vars, mainVars, searchVars
<1> QED BY <1>1, <1>2, <1>3, <1>4, <1>5, <1>6, <1>7, <1>8, <1>9, <1>10, <1>11, <1>12, <1>13, <1>14
       DEF Next, MainStep, RunStep, PoolStep, Finished, vars, mainVars, searchVars

\* One search at most is the winner, and a match has one.
LEMMA WinnerStep == ASSUME IInv, [Next]_vars PROVE Winner'
<1> USE DEF IInv, TypeOK, AtRest, Winner, Places, vars, mainVars, searchVars
<1>1. ASSUME NEW s \in Searches, Take(s) PROVE Winner'
  BY <1>1 DEF Take, Goto
<1>2. ASSUME NEW s \in Searches, Skip(s) PROVE Winner'
  BY <1>2 DEF Skip, Goto
<1>3. ASSUME NEW s \in Searches, PublishPending(s) PROVE Winner'
  BY <1>3 DEF PublishPending, Goto
<1>4. ASSUME NEW s \in Searches, Check(s) PROVE Winner'
  BY <1>4 DEF Check, Goto
<1>5. ASSUME NEW s \in Searches, Leave(s) PROVE Winner'
  BY <1>5 DEF Leave, Goto
<1>6. ASSUME NEW s \in Searches, Test(s) PROVE Winner'
  BY <1>6 DEF Test, Goto
<1>7. ASSUME NEW s \in Searches, PublishMatch(s) PROVE Winner'
  BY <1>7 DEF PublishMatch, Goto
<1>8. ASSUME NEW s \in Searches, Swap(s) PROVE Winner'
  BY <1>8 DEF Swap, Goto
<1>9. CASE BeginRound
  BY <1>9 DEF BeginRound
<1>10. CASE EndRound
  BY <1>10 DEF EndRound
<1>11. CASE Report
  BY <1>11 DEF Report
<1>12. CASE EndLoop
  BY <1>12 DEF EndLoop
<1>13. CASE Expire
  BY <1>13 DEF Expire
<1>14. CASE UNCHANGED vars
  BY <1>14
<1> HIDE DEF IInv, TypeOK, AtRest, Winner, Places, vars, mainVars, searchVars
<1> QED BY <1>1, <1>2, <1>3, <1>4, <1>5, <1>6, <1>7, <1>8, <1>9, <1>10, <1>11, <1>12, <1>13, <1>14
       DEF Next, MainStep, RunStep, PoolStep, Finished, vars, mainVars, searchVars

\* No search tests more than Publish candidates after the deadline.
LEMMA ClockStep == ASSUME IInv, [Next]_vars PROVE Clock'
<1> USE PublishAssumption DEF IInv, TypeOK, AtRest, Clock, LastRound, Places, vars, mainVars, searchVars
<1>1. ASSUME NEW s \in Searches, Take(s) PROVE Clock'
  BY <1>1 DEF Take, Goto
<1>2. ASSUME NEW s \in Searches, Skip(s) PROVE Clock'
  BY <1>2 DEF Skip, Goto
<1>3. ASSUME NEW s \in Searches, PublishPending(s) PROVE Clock'
  BY <1>3 DEF PublishPending, Goto
<1>4. ASSUME NEW s \in Searches, Check(s) PROVE Clock'
  BY <1>4 DEF Check, Goto
<1>5. ASSUME NEW s \in Searches, Leave(s) PROVE Clock'
  BY <1>5 DEF Leave, Goto
<1>6. ASSUME NEW s \in Searches, Test(s) PROVE Clock'
  BY <1>6 DEF Test, Goto
<1>7. ASSUME NEW s \in Searches, PublishMatch(s) PROVE Clock'
  BY <1>7 DEF PublishMatch, Goto
<1>8. ASSUME NEW s \in Searches, Swap(s) PROVE Clock'
  BY <1>8 DEF Swap, Goto
<1>9. CASE BeginRound
  BY <1>9 DEF BeginRound
<1>10. CASE EndRound
  BY <1>10 DEF EndRound
<1>11. CASE Report
  BY <1>11 DEF Report
<1>12. CASE EndLoop
  BY <1>12 DEF EndLoop
<1>13. CASE Expire
  BY <1>13 DEF Expire
<1>14. CASE UNCHANGED vars
  BY <1>14
<1> HIDE DEF IInv, TypeOK, AtRest, Clock, LastRound, Places, vars, mainVars, searchVars
<1> QED BY <1>1, <1>2, <1>3, <1>4, <1>5, <1>6, <1>7, <1>8, <1>9, <1>10, <1>11, <1>12, <1>13, <1>14
       DEF Next, MainStep, RunStep, PoolStep, Finished, vars, mainVars, searchVars

\* After a late result no round gives another.
LEMMA LastRoundStep == ASSUME IInv, [Next]_vars PROVE LastRound'
<1> USE DEF IInv, TypeOK, AtRest, Winner, Clock, LastRound, Places, vars, mainVars, searchVars
<1>1. ASSUME NEW s \in Searches, Take(s) PROVE LastRound'
  BY <1>1 DEF Take, Goto
<1>2. ASSUME NEW s \in Searches, Skip(s) PROVE LastRound'
  BY <1>2 DEF Skip, Goto
<1>3. ASSUME NEW s \in Searches, PublishPending(s) PROVE LastRound'
  BY <1>3 DEF PublishPending, Goto
<1>4. ASSUME NEW s \in Searches, Check(s) PROVE LastRound'
  BY <1>4 DEF Check, Goto
<1>5. ASSUME NEW s \in Searches, Leave(s) PROVE LastRound'
  BY <1>5 DEF Leave, Goto
<1>6. ASSUME NEW s \in Searches, Test(s) PROVE LastRound'
  BY <1>6 DEF Test, Goto
<1>7. ASSUME NEW s \in Searches, PublishMatch(s) PROVE LastRound'
  BY <1>7 DEF PublishMatch, Goto
<1>8. ASSUME NEW s \in Searches, Swap(s) PROVE LastRound'
  BY <1>8 DEF Swap, Goto
<1>9. CASE BeginRound
  BY <1>9 DEF BeginRound
<1>10. CASE EndRound
  BY <1>10 DEF EndRound
<1>11. CASE Report
  BY <1>11 DEF Report
<1>12. CASE EndLoop
  BY <1>12 DEF EndLoop
<1>13. CASE Expire
  BY <1>13 DEF Expire
<1>14. CASE UNCHANGED vars
  BY <1>14
<1> HIDE DEF IInv, TypeOK, AtRest, Winner, Clock, LastRound, Places, vars, mainVars, searchVars
<1> QED BY <1>1, <1>2, <1>3, <1>4, <1>5, <1>6, <1>7, <1>8, <1>9, <1>10, <1>11, <1>12, <1>13, <1>14
       DEF Next, MainStep, RunStep, PoolStep, Finished, vars, mainVars, searchVars

\* The second part of what is exported is a round.
LEMMA ExportTypes ==
  ASSUME TypeOK
  PROVE  Len(exported) \in Nat /\ \A i \in 1 .. Len(exported) : exported[i][2] \in Nat
<1> DEFINE Walked == Searches \X Nat
<1>1. \A w \in Walked : w[2] \in Nat
  OBVIOUS
<1>2. exported \in Seq(Walked)
  BY DEF TypeOK
<1> HIDE DEF Walked
<1>3. Len(exported) \in Nat /\ \A i \in 1 .. Len(exported) : exported[i] \in Walked
  BY <1>2
<1> QED BY <1>1, <1>3

\* A walk is begun anew for each round, so that no two results share one.
LEMMA WalksStep == ASSUME IInv, [Next]_vars PROVE Walks'
<1>1. ASSUME NEW s \in Searches, RunStep(s) \/ PoolStep(s) PROVE Walks'
  <2>1. /\ UNCHANGED <<main, round, exported>> /\ pc \in [Searches -> Places]
        /\ walk \in [Searches -> Nat] /\ Walks
    BY <1>1 DEF RunStep, PoolStep, Take, Skip, PublishPending, Check, Leave, Test, PublishMatch,
         Swap, IInv, TypeOK, mainVars
  <2>2. CASE Take(s)
    BY <2>1, <2>2 DEF Take, Goto, Walks, Walking
  <2>3. CASE Skip(s)
    BY <2>1, <2>3 DEF Skip, Goto, Walks, Walking
  <2>4. CASE PublishPending(s)
    BY <2>1, <2>4 DEF PublishPending, Walks, Walking
  <2>5. CASE Check(s) \/ Leave(s)
    BY <2>1, <2>5 DEF Check, Leave, Goto, Walks, Walking
  <2>6. CASE Test(s)
    BY <2>1, <2>6 DEF Test, Goto, Walks, Walking
  <2>7. CASE PublishMatch(s) \/ Swap(s)
    BY <2>1, <2>7 DEF PublishMatch, Swap, Goto, Walks, Walking
  <2> QED BY <1>1, <2>2, <2>3, <2>4, <2>5, <2>6, <2>7 DEF RunStep, PoolStep
<1>2. CASE BeginRound
  <2>1. /\ main = "rounds" /\ main' = "search" /\ round' = round + 1
        /\ somes' = {} /\ pc' = [s \in Searches |-> "waiting"] /\ UNCHANGED <<exported, walk>>
    BY <1>2 DEF BeginRound, IInv, AtRest
  <2>2. round \in Nat /\ \A i \in 1 .. Len(exported) : exported[i][2] \in Nat
    BY ExportTypes DEF IInv, TypeOK
  <2>3. \A i \in 1 .. Len(exported) : exported[i][2] <= round
    BY DEF IInv, Walks
  <2>4. \A i \in 1 .. Len(exported) : exported[i][2] <= round + 1 /\ exported[i][2] < round + 1
    BY <2>2, <2>3
  <2> QED BY <2>1, <2>4 DEF IInv, Walks, Walking
<1>3. CASE EndRound
  BY <1>3 DEF EndRound, searchVars, IInv, Walks
<1>4. CASE Report
  <2>1. PICK s \in somes : exported' = Append(exported, <<s, walk[s]>>)
    BY <1>4 DEF Report
  <2>2. /\ Len(exported') = Len(exported) + 1 /\ Len(exported) \in Nat
        /\ exported'[Len(exported) + 1] = <<s, walk[s]>>
        /\ \A i \in 1 .. Len(exported) : exported'[i] = exported[i]
    <3>1. exported \in Seq(Searches \X Nat)
      BY DEF IInv, TypeOK
    <3> QED BY <2>1, <3>1
  <2>3. walk[s] = round /\ round \in Nat
    BY DEF IInv, TypeOK, Walks
  <2>4. UNCHANGED <<round, pc, walk, somes>> /\ main' = "rounds" /\ main = "report"
    BY <1>4 DEF Report, searchVars
  <2>5. \A i \in 1 .. Len(exported) : exported[i][2] < round /\ exported[i][2] \in Nat
    BY <2>4, ExportTypes DEF IInv, Walks
  <2>6. \A i \in 1 .. Len(exported') : i \in Nat /\ (i \in 1 .. Len(exported) \/ i = Len(exported) + 1)
    BY <2>2
  <2>7. exported'[Len(exported) + 1][2] = round
    BY <2>2, <2>3
  <2>8. \A i \in 1 .. Len(exported') : exported'[i][2] <= round
    BY <2>2, <2>3, <2>5, <2>6, <2>7
  <2>9. ASSUME NEW i \in 1 .. Len(exported'), NEW j \in 1 .. Len(exported'), i < j
        PROVE  exported'[i][2] < exported'[j][2]
    <3>1. i \in 1 .. Len(exported) /\ (j \in 1 .. Len(exported) \/ j = Len(exported) + 1)
      BY <2>2, <2>6, <2>9
    <3> QED BY <2>2, <2>5, <2>7, <2>9, <3>1 DEF IInv, Walks
  <2>10. \A t \in Searches : pc[t] \in Walking \/ t \in somes => walk[t] = round
    BY DEF IInv, Walks
  <2> QED BY <2>4, <2>8, <2>9, <2>10 DEF Walks
<1>5. CASE EndLoop \/ Expire \/ UNCHANGED vars
  BY <1>5 DEF EndLoop, Expire, vars, mainVars, searchVars, IInv, Walks
<1> QED BY <1>1, <1>2, <1>3, <1>4, <1>5 DEF Next, MainStep, Finished

-----------------------------------------------------------------------------
(* Counting the candidates that are not published. *)

LEMMA UnpublishedFinite ==
  /\ IsFiniteSet(Unpublished) /\ Cardinality(Unpublished) \in Nat
  /\ Cardinality(Unpublished) <= Publish * Cardinality(Searches)
<1> DEFINE Room == Searches \X (1 .. Publish)
<1>1. IsFiniteSet(1 .. Publish) /\ Cardinality(1 .. Publish) = Publish
  BY PublishAssumption, FS_Interval
<1>2. /\ IsFiniteSet(Room) /\ Cardinality(Room) = Cardinality(Searches) * Cardinality(1 .. Publish)
  BY <1>1, SearchesAssumption, FS_Product
<1>3. Cardinality(Searches) \in Nat
  BY SearchesAssumption, FS_CardinalityType
<1>4. Cardinality(Room) = Publish * Cardinality(Searches)
  BY <1>1, <1>2, <1>3, PublishAssumption
<1>5. Unpublished \in SUBSET Room
  BY DEF Unpublished
<1> HIDE DEF Room
<1>6. IsFiniteSet(Unpublished) /\ Cardinality(Unpublished) <= Cardinality(Room)
  BY <1>2, <1>5, FS_Subset
<1> QED BY <1>4, <1>6, FS_CardinalityType

\* Publishing what is pending takes exactly that many off.
LEMMA PublishedAll ==
  ASSUME TypeOK, NEW s \in Searches, pc[s] \in {"top", "leave", "test", "publish"},
         Unpublished' = Unpublished \ ({s} \X (1 .. pending[s]))
  PROVE  Cardinality(Unpublished') = Cardinality(Unpublished) - pending[s]
<1> DEFINE Mine == {s} \X (1 .. pending[s])
<1>1. pending[s] \in 0 .. Publish /\ pending[s] \in Nat
  BY PublishAssumption DEF TypeOK
<1>2. IsFiniteSet(1 .. pending[s]) /\ Cardinality(1 .. pending[s]) = pending[s]
  <2> DEFINE n == pending[s]
  <2>1. n \in Nat /\ n \in Int /\ 1 \in Int
    BY <1>1
  <2> HIDE DEF n
  <2>2. IsFiniteSet(1 .. n) /\ Cardinality(1 .. n) = IF 1 > n THEN 0 ELSE n - 1 + 1
    BY <2>1, FS_Interval
  <2>3. Cardinality(1 .. n) = n
    BY <2>1, <2>2
  <2> QED BY <2>2, <2>3 DEF n
<1>3. IsFiniteSet({s}) /\ Cardinality({s}) = 1
  BY FS_Singleton
<1>4. Cardinality(Mine) = 1 * pending[s]
  <2> DEFINE One == {s}
             Run == 1 .. pending[s]
  <2>1. IsFiniteSet(One) /\ Cardinality(One) = 1 /\ IsFiniteSet(Run) /\ Cardinality(Run) = pending[s]
    BY <1>2, <1>3
  <2> HIDE DEF One, Run
  <2>2. Cardinality(One \X Run) = 1 * pending[s]
    BY <2>1, FS_Product
  <2> QED BY <2>2 DEF One, Run, Mine
<1>5. Mine \subseteq Unpublished
  BY <1>1, PublishAssumption DEF Unpublished
<1> HIDE DEF Mine
<1>6. Cardinality(Unpublished \ Mine) = Cardinality(Unpublished) - Cardinality(Unpublished \cap Mine)
  BY UnpublishedFinite, FS_Difference
<1>7. Unpublished \cap Mine = Mine
  BY <1>5
<1> QED BY <1>1, <1>4, <1>6, <1>7 DEF Mine

\* A step that moves no candidate into or out of a running search.
LEMMA SameUnpublished ==
  ASSUME Lag, UNCHANGED uncounted, Unpublished' = Unpublished
  PROVE  Lag'
BY DEF Lag

\* progress.attempts lacks exactly what the running searches have pending.
LEMMA LagStep == ASSUME IInv, [Next]_vars PROVE Lag'
<1> USE DEF IInv
<1>1. ASSUME NEW s \in Searches, Take(s) \/ Skip(s) \/ Check(s) \/ Swap(s) PROVE Lag'
  <2>1. Unpublished' = Unpublished
    <3>1. CASE Take(s)
      <4>1. pc[s] = "waiting" /\ pending'[s] = 0
        BY <3>1 DEF Take, Goto, TypeOK
      <4>2. \A t \in Searches : t # s => pc'[t] = pc[t] /\ pending'[t] = pending[t]
        BY <3>1 DEF Take, Goto, TypeOK
      <4> QED BY <4>1, <4>2, PublishAssumption DEF Unpublished
    <3>2. CASE Skip(s)
      BY <3>2 DEF Skip, Goto, TypeOK, Unpublished
    <3>3. CASE Check(s)
      BY <3>3 DEF Check, Goto, TypeOK, Unpublished
    <3>4. CASE Swap(s)
      BY <3>4 DEF Swap, Goto, TypeOK, Unpublished
    <3> QED BY <1>1, <3>1, <3>2, <3>3, <3>4
  <2>2. UNCHANGED uncounted
    BY <1>1 DEF Take, Skip, Check, Swap
  <2> QED BY <2>1, <2>2, SameUnpublished
<1>2. ASSUME NEW s \in Searches, PublishPending(s) \/ Leave(s) \/ PublishMatch(s) PROVE Lag'
  <2>1. pc[s] \in {"top", "leave", "test", "publish"} /\ uncounted' = uncounted - pending[s]
    BY <1>2 DEF PublishPending, Leave, PublishMatch, Goto
  <2>2. Unpublished' = Unpublished \ ({s} \X (1 .. pending[s]))
    BY <1>2, PublishAssumption DEF PublishPending, Leave, PublishMatch, Goto, TypeOK, Unpublished
  <2> QED BY <2>1, <2>2, PublishedAll DEF Lag
<1>3. ASSUME NEW s \in Searches, Test(s) PROVE Lag'
  <2> DEFINE one == <<s, pending[s] + 1>>
  <2>1. pc[s] = "test" /\ pc'[s] \in {"publish", "top"} /\ \A t \in Searches : t # s => pc'[t] = pc[t]
    BY <1>3 DEF Test, Goto, TypeOK
  <2>2. /\ pending[s] \in Nat /\ pending[s] < Publish /\ pending'[s] = pending[s] + 1
        /\ \A t \in Searches : t # s => pending'[t] = pending[t]
    BY <1>3, <2>1, PublishAssumption DEF Test, TypeOK, Clock
  <2>3. Unpublished' = Unpublished \cup {one} /\ one \notin Unpublished
    BY <2>1, <2>2, PublishAssumption DEF Unpublished
  <2>4. Cardinality(Unpublished') = Cardinality(Unpublished) + 1
    BY <2>3, UnpublishedFinite, FS_AddElement
  <2> QED BY <1>3, <2>4 DEF Test, Lag
<1>4. CASE BeginRound
  <2>1. Unpublished = {} /\ Unpublished' = {}
    BY <1>4 DEF BeginRound, AtRest, Unpublished
  <2> QED BY <1>4, <2>1, SameUnpublished DEF BeginRound
<1>5. CASE EndRound \/ Report \/ EndLoop \/ Expire \/ UNCHANGED vars
  <2>1. UNCHANGED <<pc, pending, uncounted>>
    BY <1>5 DEF EndRound, Report, EndLoop, Expire, vars, searchVars
  <2>2. Unpublished' = Unpublished
    BY <2>1 DEF Unpublished
  <2> QED BY <2>1, <2>2, SameUnpublished
<1> QED BY <1>1, <1>2, <1>3, <1>4, <1>5 DEF Next, MainStep, RunStep, PoolStep, Finished

LEMMA InitIInv == Init => IInv
<1> SUFFICES ASSUME Init PROVE IInv
  OBVIOUS
<1>1. TypeOK
  <2>1. <<>> \in Seq(Searches \X Nat) /\ 0 \in 0 .. Publish
    BY PublishAssumption
  <2>2. /\ pc \in [Searches -> Places] /\ pending \in [Searches -> 0 .. Publish]
        /\ walk \in [Searches -> Nat] /\ late \in [Searches -> Nat]
    BY <2>1 DEF Init, Places
  <2>3. main \in {"rounds", "search", "report", "done"} /\ exported \in Seq(Searches \X Nat)
    BY <2>1 DEF Init
  <2>4. round \in Nat /\ somes \in SUBSET Searches /\ uncounted \in Int /\ lateHits \in Nat
    BY DEF Init
  <2>5. stopped \in BOOLEAN /\ expired \in BOOLEAN /\ matched \in BOOLEAN
    BY DEF Init
  <2> QED BY <2>2, <2>3, <2>4, <2>5 DEF TypeOK
<1>2. AtRest /\ Winner /\ Walks /\ Clock /\ LastRound
  BY PublishAssumption DEF Init, AtRest, Winner, Walks, Walking, Clock, LastRound
<1>3. Unpublished = {}
  BY DEF Init, Unpublished
<1>4. Lag
  BY <1>3, FS_EmptySet DEF Init, Lag
<1> QED BY <1>1, <1>2, <1>4 DEF IInv

\* The inductive invariant holds in every reachable state.
THEOREM Invariance == Spec => []IInv
<1>1. IInv /\ [Next]_vars => IInv'
  BY TypeOKStep, AtRestStep, WinnerStep, ClockStep, LastRoundStep, WalksStep, LagStep DEF IInv
<1> QED BY InitIInv, <1>1, PTL DEF Spec

-----------------------------------------------------------------------------
(* The properties of CpuSearch. *)

\* The atomic swap of run_cpu_generation lets one search win, and a round in
\* which a candidate matched does not end without a winner.
THEOREM WinnerIsOne == Spec => []OneWinner
<1>1. IInv => OneWinner
  BY DEF IInv, AtRest, Winner, OneWinner
<1> QED BY Invariance, <1>1, PTL

\* The attempts printed with a result are those made, and the display lags by
\* less than a publication per search: the unpublished candidates are pairs of a
\* search and a position since its last publication.
THEOREM AttemptsExact == Spec => []ReportExact
<1>1. IInv => ReportExact
  <2> SUFFICES ASSUME IInv PROVE ReportExact
    OBVIOUS
  <2>1. main # "search" => Unpublished = {}
    BY DEF IInv, AtRest, Unpublished
  <2> QED BY <2>1, UnpublishedFinite, FS_EmptySet DEF IInv, Lag, ReportExact
<1> QED BY Invariance, <1>1, PTL

\* A search tests at most Publish candidates after the deadline, and one late
\* result at most is accepted.
THEOREM DeadlineBounds == Spec => []LateBounded
<1>1. IInv => LateBounded
  BY DEF IInv, Clock, LastRound, LateBounded
<1> QED BY Invariance, <1>1, PTL

\* No two printed keys come from one walk: their walks are of different rounds.
THEOREM KeysUnrelated == Spec => []NeverRelated
<1>1. IInv => NeverRelated
  <2> SUFFICES ASSUME IInv, NEW i \in 1 .. Len(exported), NEW j \in 1 .. Len(exported), i # j
               PROVE  exported[i] # exported[j]
    BY DEF NeverRelated
  <2>1. Len(exported) \in Nat /\ exported[i][2] \in Nat /\ exported[j][2] \in Nat
    BY ExportTypes DEF IInv
  <2>2. i < j \/ j < i
    BY <2>1
  <2>3. exported[i][2] # exported[j][2]
    BY <2>1, <2>2 DEF IInv, Walks
  <2> QED BY <2>3
<1> QED BY Invariance, <1>1, PTL

-----------------------------------------------------------------------------
(* The display. *)

CallerPlaces == {"run", "store", "print", "drop", "join", "gone"}
ThreadPlaces == {"wait", "read", "lock", "write", "returned", "panicked"}

Types ==
  /\ caller \in CallerPlaces /\ thread \in ThreadPlaces
  /\ unset \subseteq Display!Fields /\ toRead \subseteq Display!Fields
  /\ attempts \in Nat /\ found \in Nat /\ roundStart \in Nat /\ counted \in Nat
  /\ previous \in Nat /\ gpuMode \in BOOLEAN /\ finished \in BOOLEAN
  /\ stop \in BOOLEAN /\ poisoned \in BOOLEAN
  /\ seen \in [attempts : Nat, found : Nat, roundStart : Nat, gpuMode : BOOLEAN]
  /\ line \in [round : Nat, attempts : Nat, found : Nat,
               rate : {"none", "observed", "devices", "average"},
               state : {"none", "search", "stopped", "done"}]

\* What the channel, the mutex and the join synchronise.
Protocol ==
  /\ unset # {} => caller = "store"
  /\ stop <=> caller \in {"join", "gone"}
  /\ poisoned => caller \in {"drop", "join", "gone"}
  /\ display = "caller" <=> caller = "print"
  /\ display = "thread" <=> thread = "write"
  /\ thread = "panicked" => poisoned
  /\ caller = "gone" => thread \in {"returned", "panicked"}

\* Neither what was loaded nor the round's start is ahead of the counters, and
\* the line on the terminal is not ahead of what was loaded.
Behind ==
  /\ counted <= attempts /\ roundStart <= attempts
  /\ seen.attempts <= attempts /\ seen.found <= found /\ previous <= attempts
  /\ line.attempts <= seen.attempts /\ line.found <= seen.found

\* A thread that was woken to finish has final values in all it has loaded.
Finishing ==
  /\ thread = "wait" => ~finished
  /\ thread = "returned" => finished
  /\ finished => stop
  /\ thread \in {"lock", "write", "returned"} => toRead = {}
  /\ thread \in {"lock", "write"} /\ ~seen.gpuMode => previous >= seen.attempts
  /\ finished =>
       /\ "attempts" \notin toRead => seen.attempts = attempts
       /\ "found" \notin toRead => seen.found = found
       /\ "roundStart" \notin toRead => seen.roundStart = roundStart
       /\ "gpuMode" \notin toRead => seen.gpuMode = gpuMode

\* The line a thread leaves when it returns.
Final ==
  thread = "returned" =>
    /\ line.attempts = attempts /\ line.found = found
    /\ line.round = attempts - roundStart
    /\ line.state = IF found >= Target THEN "done" ELSE "stopped"
    /\ line.rate = IF gpuMode THEN "average" ELSE IF attempts > 0 THEN "observed" ELSE "none"

DisplayInv == Types /\ Protocol /\ Behind /\ Finishing /\ Final

LEMMA DisplayStarts == Display!Init => DisplayInv
<1> SUFFICES ASSUME Display!Init
             PROVE  DisplayInv
  OBVIOUS
<1>1. /\ seen.attempts = 0 /\ seen.found = 0 /\ line.attempts = 0 /\ line.found = 0
      /\ seen \in [attempts : Nat, found : Nat, roundStart : Nat, gpuMode : BOOLEAN]
  BY DEF Display!Init, Display!Unseen, Display!NoLine
<1>2. line \in [round : Nat, attempts : Nat, found : Nat,
               rate : {"none", "observed", "devices", "average"},
               state : {"none", "search", "stopped", "done"}]
  BY DEF Display!Init, Display!NoLine
<1>3. Types
  BY <1>1, <1>2 DEF Display!Init, Types, CallerPlaces, ThreadPlaces
<1>4. Protocol /\ Behind /\ Finishing /\ Final
  BY <1>1 DEF Display!Init, Protocol, Behind, Finishing, Final
<1> QED BY <1>3, <1>4 DEF DisplayInv

-----------------------------------------------------------------------------
(* The caller's steps. *)

\* Steps that move the caller, and perhaps the mutex or the channel, and touch
\* no counter.
LEMMA CallerMoves ==
  ASSUME DisplayInv,
         \/ Display!Return \/ Display!BeginOutput \/ Display!EndOutput \/ Display!OutputPanics
         \/ Display!BeginDrop \/ Display!SendStop \/ Display!Join
  PROVE  DisplayInv'
<1> USE DEF DisplayInv, Display!CallerAt, Display!callerVars, Display!atomics, Display!threadVars
<1>1. Types'
  BY DEF Types, CallerPlaces, Display!Return, Display!BeginOutput, Display!EndOutput,
         Display!OutputPanics, Display!BeginDrop, Display!SendStop, Display!Join
<1>2. Protocol'
  <2> USE DEF Types, CallerPlaces, ThreadPlaces, Protocol
  <2>1. CASE Display!Return       BY <2>1 DEF Display!Return
  <2>2. CASE Display!BeginOutput  BY <2>2 DEF Display!BeginOutput
  <2>3. CASE Display!EndOutput    BY <2>3 DEF Display!EndOutput
  <2>4. CASE Display!OutputPanics BY <2>4 DEF Display!OutputPanics
  <2>5. CASE Display!BeginDrop    BY <2>5 DEF Display!BeginDrop
  <2>6. CASE Display!SendStop     BY <2>6 DEF Display!SendStop
  <2>7. CASE Display!Join         BY <2>7 DEF Display!Join
  <2> QED BY <2>1, <2>2, <2>3, <2>4, <2>5, <2>6, <2>7
<1>3. Behind'
  BY DEF Behind, Display!Return, Display!BeginOutput, Display!EndOutput, Display!OutputPanics,
         Display!BeginDrop, Display!SendStop, Display!Join
<1>4. Finishing'
  BY DEF Finishing, Display!Return, Display!BeginOutput, Display!EndOutput, Display!OutputPanics,
         Display!BeginDrop, Display!SendStop, Display!Join
<1>5. Final'
  BY DEF Final, Display!Return, Display!BeginOutput, Display!EndOutput, Display!OutputPanics,
         Display!BeginDrop, Display!SendStop, Display!Join
<1> QED BY <1>1, <1>2, <1>3, <1>4, <1>5

\* Steps that count: they happen before the stop, so the thread is not finishing.
LEMMA CallerCounts ==
  ASSUME DisplayInv, Display!BeginCount \/ Display!BeginFound \/ Display!Visible
  PROVE  DisplayInv'
<1> USE DEF DisplayInv, Types, Display!CallerAt, Display!callerVars, Display!atomics, Display!threadVars
<1>1. ~finished /\ thread # "returned" /\ ~stop
  BY DEF Protocol, Finishing, Display!BeginCount, Display!BeginFound, Display!Visible
<1>2. CASE Display!BeginCount
  BY <1>1, <1>2 DEF Display!BeginCount, CallerPlaces, Display!Fields, Protocol, Behind, Finishing,
       Final
<1>3. CASE Display!BeginFound
  BY <1>1, <1>3 DEF Display!BeginFound, CallerPlaces, Display!Fields, Protocol, Behind, Finishing,
       Final
<1>4. CASE Display!Visible
  <2>1. PICK f \in unset :
          /\ unset' = unset \ {f}
          /\ attempts' = IF f = "attempts" THEN attempts + 1 ELSE attempts
          /\ gpuMode' = (f = "gpuMode" \/ gpuMode)
          /\ roundStart' = IF f = "roundStart" THEN counted ELSE roundStart
          /\ found' = IF f = "found" THEN found + 1 ELSE found
    BY <1>4 DEF Display!Visible
  <2>2. /\ caller = "store"
        /\ UNCHANGED <<caller, counted, gpu, display, poisoned, stop, Display!threadVars, line>>
    BY <1>4 DEF Display!Visible
  <2>3. /\ attempts' \in Nat /\ attempts <= attempts'
        /\ found' \in Nat /\ found <= found'
        /\ roundStart' \in Nat /\ roundStart' <= attempts'
    BY <2>1 DEF Behind
  <2>4. Types'       BY <2>1, <2>2, <2>3
  <2>5. Protocol'    BY <2>1, <2>2 DEF Protocol
  <2>6. Behind'      BY <2>2, <2>3 DEF Behind
  <2>7. Finishing'   BY <1>1, <2>2 DEF Finishing
  <2>8. Final'       BY <1>1, <2>2 DEF Final
  <2> QED BY <2>4, <2>5, <2>6, <2>7, <2>8
<1> QED BY <1>2, <1>3, <1>4

-----------------------------------------------------------------------------
(* The display thread's steps. *)

LEMMA ThreadMoves ==
  ASSUME DisplayInv, Display!WakeUp \/ Display!Sample \/ Display!Lock \/ Display!LockPanics
  PROVE  DisplayInv'
<1> USE DEF DisplayInv, Types, Display!ThreadAt, Display!callerVars, Display!atomics
<1>1. CASE Display!WakeUp
  BY <1>1 DEF Display!WakeUp, ThreadPlaces, Display!Fields, Protocol, Behind, Finishing, Final
<1>2. CASE Display!Sample
  BY <1>2 DEF Display!Sample, ThreadPlaces, Protocol, Behind, Finishing, Final
<1>3. CASE Display!Lock
  BY <1>3 DEF Display!Lock, ThreadPlaces, Protocol, Behind, Finishing, Final
<1>4. CASE Display!LockPanics
  BY <1>4 DEF Display!LockPanics, ThreadPlaces, Protocol, Behind, Finishing, Final
<1> QED BY <1>1, <1>2, <1>3, <1>4

\* A load brings one value up to date.
LEMMA ThreadLoads ==
  ASSUME DisplayInv, Display!Load
  PROVE  DisplayInv'
<1> USE DEF DisplayInv, Types, Display!ThreadAt, Display!callerVars, Display!atomics
<1>1. PICK f \in toRead :
        /\ toRead' = toRead \ {f}
        /\ seen' = [seen EXCEPT ![f] = CASE f = "attempts" -> attempts [] f = "found" -> found
                                       [] f = "roundStart" -> roundStart [] OTHER -> gpuMode]
  BY DEF Display!Load
<1>2. /\ thread = "read" /\ thread' = "read"
      /\ UNCHANGED <<Display!callerVars, Display!atomics, stop, poisoned, display, finished,
                     previous, line>>
  BY DEF Display!Load
<1>3. f \in {"attempts", "found", "roundStart", "gpuMode"}
  BY DEF Display!Fields
<1>4. /\ seen' \in [attempts : Nat, found : Nat, roundStart : Nat, gpuMode : BOOLEAN]
      /\ seen'.attempts = IF f = "attempts" THEN attempts ELSE seen.attempts
      /\ seen'.found = IF f = "found" THEN found ELSE seen.found
      /\ seen'.roundStart = IF f = "roundStart" THEN roundStart ELSE seen.roundStart
      /\ seen'.gpuMode = IF f = "gpuMode" THEN gpuMode ELSE seen.gpuMode
  <2>1. CASE f = "attempts"   BY <1>1, <2>1
  <2>2. CASE f = "found"      BY <1>1, <2>2
  <2>3. CASE f = "roundStart" BY <1>1, <2>3
  <2>4. CASE f = "gpuMode"    BY <1>1, <2>4
  <2> QED BY <1>3, <2>1, <2>2, <2>3, <2>4
<1>5. Types'     BY <1>1, <1>2, <1>4
<1>6. Protocol'  BY <1>2 DEF Protocol
<1>7. Behind'    BY <1>2, <1>4 DEF Behind
<1>8. Finishing' BY <1>1, <1>2, <1>4 DEF Finishing
<1>9. Final'     BY <1>2 DEF Final
<1> QED BY <1>5, <1>6, <1>7, <1>8, <1>9

\* A line shows what was loaded.
LEMMA ThreadWrites ==
  ASSUME DisplayInv, Display!Write
  PROVE  DisplayInv' /\ line'.round \in 0 .. line'.attempts
<1> USE DEF DisplayInv, Types
<1>1. Display!Round \in Nat /\ Display!Round <= seen.attempts
  BY DEF Display!Round
<1>2. Display!Rate \in {"none", "observed", "devices", "average"}
  BY DEF Display!Rate
<1>3. Display!LineState \in {"none", "search", "stopped", "done"}
  BY DEF Display!LineState
<1>4. /\ line'.round = Display!Round /\ line'.attempts = seen.attempts /\ line'.found = seen.found
      /\ line'.rate = Display!Rate /\ line'.state = Display!LineState
  BY DEF Display!Write
<1>5. /\ thread = "write" /\ thread' = IF finished THEN "returned" ELSE "wait"
      /\ display' = "free"
      /\ UNCHANGED <<Display!callerVars, Display!atomics, stop, poisoned, finished, toRead,
                     seen, previous>>
  BY DEF Display!Write
<1>6. Types'
  BY <1>1, <1>2, <1>3, <1>5 DEF Display!Write, ThreadPlaces, Display!callerVars, Display!atomics
<1>7. Protocol'
  BY <1>5 DEF Protocol, Display!callerVars
<1>8. Behind'
  BY <1>4, <1>5 DEF Behind, Display!callerVars, Display!atomics
<1>9. Finishing'
  BY <1>5 DEF Finishing, Display!callerVars, Display!atomics
<1>10. Final'
  <2> SUFFICES ASSUME finished
               PROVE  Final'
    BY <1>5 DEF Final
  <2>1. /\ seen.attempts = attempts /\ seen.found = found
        /\ seen.roundStart = roundStart /\ seen.gpuMode = gpuMode
    BY <1>5 DEF Finishing
  <2>2. ~gpuMode => (previous > 0 <=> attempts > 0)
    BY <1>5, <2>1 DEF Finishing, Behind
  <2>3. Display!Round = attempts - roundStart
    BY <2>1 DEF Display!Round, Behind
  <2>4. Display!Rate = IF gpuMode THEN "average" ELSE IF attempts > 0 THEN "observed" ELSE "none"
    BY <2>1, <2>2 DEF Display!Rate
  <2>5. Display!LineState = IF found >= Target THEN "done" ELSE "stopped"
    BY <2>1 DEF Display!LineState
  <2> QED BY <1>4, <1>5, <2>1, <2>3, <2>4, <2>5 DEF Final, Display!atomics
<1> QED BY <1>1, <1>4, <1>6, <1>7, <1>8, <1>9, <1>10

-----------------------------------------------------------------------------
LEMMA DisplayInvStep == DisplayInv /\ [Display!Next]_Display!vars => DisplayInv'
<1> SUFFICES ASSUME DisplayInv, [Display!Next]_Display!vars
             PROVE  DisplayInv'
  OBVIOUS
<1>1. CASE Display!Caller
  BY <1>1, CallerMoves, CallerCounts DEF Display!Caller
<1>2. CASE Display!Thread
  BY <1>2, ThreadMoves, ThreadLoads, ThreadWrites DEF Display!Thread
<1>3. CASE UNCHANGED Display!vars
  BY <1>3 DEF Display!vars, Display!callerVars, Display!atomics, Display!threadVars, DisplayInv,
              Types, Protocol, Behind, Finishing, Final
<1> QED BY <1>1, <1>2, <1>3 DEF Display!Next, Display!Finished

\* Every reachable state satisfies the invariant.
THEOREM DisplayInvariance == Display!Spec => []DisplayInv
BY DisplayStarts, DisplayInvStep, PTL DEF Display!Spec

LEMMA LastIsFinal ==
  ASSUME DisplayInv
  PROVE  Display!LastLineFinal
BY DEF DisplayInv, Protocol, Final, Display!LastLineFinal

\* When dropping the Progress returns and no output panicked, the last line has
\* the final counts, state and rate, for every number of candidates and results.
THEOREM DisplayLastLine == Display!Spec => []Display!LastLineFinal
<1>1. DisplayInv => Display!LastLineFinal
  BY LastIsFinal
<1> QED BY <1>1, DisplayInvariance, PTL

\* What Display!LinesGoForward says of a step.
Forward ==
  line' # line => /\ line'.attempts >= line.attempts /\ line'.found >= line.found
                  /\ line'.attempts <= attempts /\ line'.found <= found
                  /\ line'.round \in 0 .. line'.attempts
                  /\ line'.state = "done" => found >= Target
                  /\ caller \notin {"print", "gone"}

LEMMA ForwardStep ==
  ASSUME DisplayInv, [Display!Next]_Display!vars
  PROVE  [Forward]_Display!vars
<1> SUFFICES ASSUME Display!Next, line' # line
             PROVE  Forward
  BY DEF Display!vars, Forward
<1>1. Display!Write
  BY DEF Display!Next, Display!Caller, Display!Thread, Display!Finished, Display!vars,
         Display!CallerAt, Display!ThreadAt, Display!BeginCount, Display!BeginFound,
         Display!Visible, Display!Return, Display!BeginOutput, Display!EndOutput,
         Display!OutputPanics, Display!BeginDrop, Display!SendStop, Display!Join, Display!WakeUp,
         Display!Load, Display!Sample, Display!Lock, Display!LockPanics
<1>2. line'.round \in 0 .. line'.attempts
  BY <1>1, ThreadWrites
<1>3. /\ thread = "write"
      /\ line'.attempts = seen.attempts /\ line'.found = seen.found
      /\ line'.state = Display!LineState
  BY <1>1 DEF Display!Write
<1>4. Display!LineState = "done" => found >= Target
  BY <1>3 DEF Display!LineState, DisplayInv, Finishing
<1>5. caller \notin {"print", "gone"}
  BY <1>3 DEF DisplayInv, Protocol
<1>6. /\ seen.attempts >= line.attempts /\ seen.found >= line.found
      /\ seen.attempts <= attempts /\ seen.found <= found
  BY DEF DisplayInv, Types, Behind
<1> QED BY <1>2, <1>3, <1>4, <1>5, <1>6 DEF Forward

\* No line is ahead of the counters, reports success early, goes back, falls
\* into a result that is being printed or follows the drop.
THEOREM DisplayLinesForward == Display!Spec => Display!LinesGoForward
<1>1. DisplayInv /\ [Display!Next]_Display!vars => [Forward]_Display!vars
  BY ForwardStep
<1>2. Display!Spec => [][Forward]_Display!vars
  BY <1>1, DisplayInvariance, PTL DEF Display!Spec
<1> QED BY <1>2 DEF Display!LinesGoForward, Forward

-----------------------------------------------------------------------------
(* The host. *)

\* Either part keeps its own invariant; a search that does not run is over.
HostInv ==
  /\ part \in {"search", "display"}
  /\ part = "search" => IInv
  /\ part = "display" => SearchOver /\ DisplayInv

hostVars == <<part, vars, displayVars>>

\* The display's line stays while the search runs.
LEMMA HostInvStep ==
  ASSUME HostInv, [HostNext]_hostVars
  PROVE  HostInv' /\ [Next]_vars /\ [Display!Next]_Display!vars
<1>1. UNCHANGED displayVars <=> UNCHANGED Display!vars
  BY DEF displayVars, Display!vars, Display!callerVars, Display!atomics, Display!threadVars
<1>2. part' = part /\ [Next]_vars /\ [Display!Next]_Display!vars
  BY <1>1 DEF HostNext, hostVars
<1>3. CASE part = "search"
  <2>1. IInv'
    BY <1>2, <1>3, TypeOKStep, AtRestStep, WinnerStep, ClockStep, LastRoundStep, WalksStep, LagStep
       DEF HostInv, IInv
  <2> QED BY <1>2, <1>3, <2>1 DEF HostInv
<1>4. CASE part = "display"
  <2>1. DisplayInv'
    BY <1>2, <1>4, DisplayInvStep DEF HostInv
  <2>2. SearchOver'
    <3>1. UNCHANGED vars
      BY <1>4 DEF HostNext, hostVars
    <3> QED BY <1>4, <3>1 DEF HostInv, SearchOver, vars, mainVars, searchVars
  <2> QED BY <1>2, <1>4, <2>1, <2>2 DEF HostInv
<1> QED BY <1>2, <1>3, <1>4 DEF HostInv

\* Whichever part runs, its invariant holds.
THEOREM HostInvariance == HostSpec => []HostInv
<1>1. HostInit => HostInv
  <2>1. Init => IInv
    BY InitIInv
  <2>2. Display!Init => DisplayInv
    BY DisplayStarts
  <2> QED BY <2>1, <2>2 DEF HostInit, HostInv
<1>2. HostInv /\ [HostNext]_hostVars => HostInv'
  BY HostInvStep
<1> QED BY <1>1, <1>2, PTL DEF HostSpec, hostVars

\* When dropping the Progress returns and no output panicked, the last line has
\* the final counts, state and rate, for every number of candidates and results.
THEOREM LastLine == HostSpec => []LastLineFinal
<1>1. HostInv => LastLineFinal
  BY LastIsFinal DEF HostInv, LastLineFinal
<1> QED BY <1>1, HostInvariance, PTL

\* No line is ahead of the counters, reports success early, goes back, falls
\* into a result that is being printed or follows the drop.
THEOREM LinesForward == HostSpec => LinesGoForward
<1>1. HostInv /\ [HostNext]_hostVars => [Forward]_Display!vars
  <2> SUFFICES ASSUME HostInv, [HostNext]_hostVars
               PROVE  [Forward]_Display!vars
    OBVIOUS
  <2>1. CASE part = "display"
    <3>1. [Display!Next]_Display!vars
      BY HostInvStep
    <3>2. DisplayInv
      BY <2>1 DEF HostInv
    <3> QED BY <3>1, <3>2, ForwardStep
  <2>2. CASE part = "search"
    <3>1. UNCHANGED displayVars
      BY <2>2 DEF HostNext, hostVars
    <3> QED BY <3>1 DEF displayVars, Display!vars, Display!callerVars, Display!atomics,
                        Display!threadVars
  <2> QED BY <2>1, <2>2 DEF HostInv
<1>2. HostSpec => [][Forward]_Display!vars
  BY <1>1, HostInvariance, PTL DEF HostSpec, hostVars
<1> QED BY <1>2 DEF LinesGoForward, Display!LinesGoForward, Forward
=============================================================================
