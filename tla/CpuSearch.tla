----------------------------- MODULE CpuSearch -----------------------------
(***************************************************************************)
(* run_cpu_generation (src/main.rs): one round per result asked for.  In a *)
(* round rayon runs one search per CPU; the first match of any of them     *)
(* wins the round, the others leave when they see the flag.                *)
(*                                                                         *)
(* Whether a candidate matches is a free choice.  progress.attempts only   *)
(* grows, so the model keeps how far it lags behind the candidates tested. *)
(* A search's key walk is named by the round it was begun in.  How a       *)
(* result is written to a file is not modelled: a save that fails is       *)
(* reported on stderr and changes nothing here (lines 1139-1144).          *)
(***************************************************************************)
EXTENDS Integers, Sequences, FiniteSets

CONSTANTS
  Searches,  \* the items 0..num_cpus, exclusive
  Publish,   \* candidates between two publications (256)
  Count      \* args.count

ASSUME SearchesAssumption == IsFiniteSet(Searches) /\ Searches # {}
ASSUME PublishAssumption  == Publish \in Nat \ {0}
ASSUME CountAssumption    == Count \in Nat

VARIABLES
  main,      \* where run_cpu_generation is
  round,     \* rounds begun
  stopped,   \* the round's AtomicBool
  expired,   \* has the deadline passed?
  pc,        \* where each search is; "waiting" until a pool thread takes it
  pending,   \* candidates a search has not published
  walk,      \* the round in which the search's key walk was begun
  somes,     \* searches that have returned Some(candidate)
  uncounted, \* candidates tested less progress.attempts
  exported,  \* the walks whose keys have been printed, in order
  matched,   \* history: has a candidate of this round matched?
  late,      \* history: candidates each search tested after the deadline; counted
             \* up to one more than Publish
  lateHits   \* history: results accepted of rounds that ended after it

mainVars   == <<main, round, exported, lateHits>>
searchVars == <<pc, pending, walk, late>>
vars == <<mainVars, searchVars, stopped, expired, somes, uncounted, matched>>

Init ==
  /\ main = "rounds" /\ round = 0 /\ exported = <<>> /\ lateHits = 0
  /\ pc = [s \in Searches |-> "ended"] /\ pending = [s \in Searches |-> 0]
  /\ walk = [s \in Searches |-> 0] /\ late = [s \in Searches |-> 0]
  /\ stopped = FALSE /\ expired \in BOOLEAN /\ somes = {}
  /\ uncounted = 0 /\ matched = FALSE

-----------------------------------------------------------------------------
(* The searches of a round. *)

Goto(s, from, to) ==
  /\ pc[s] = from
  /\ pc' = [pc EXCEPT ![s] = to]

\* Deviation: a search goes on with the walk it has.
Take_KeepsWalk(s) ==
  /\ Goto(s, "waiting", "top")
  /\ pending' = [pending EXCEPT ![s] = 0]
  /\ walk' = [walk EXCEPT ![s] = IF @ = 0 THEN round ELSE @]
  /\ UNCHANGED <<mainVars, late, stopped, expired, somes, uncounted, matched>>

\* A pool thread takes the item: nothing is pending, the walk is a new one.
Take(s) ==
  /\ Goto(s, "waiting", "top")
  /\ pending' = [pending EXCEPT ![s] = 0]
  /\ walk' = [walk EXCEPT ![s] = round]
  /\ UNCHANGED <<mainVars, late, stopped, expired, somes, uncounted, matched>>

\* find_map_any takes up no further item once one has returned Some.
Skip(s) ==
  /\ Goto(s, "waiting", "ended") /\ somes # {}
  /\ UNCHANGED <<mainVars, pending, walk, late, stopped, expired, somes, uncounted, matched>>

PublishPending(s) ==
  /\ pc[s] = "top" /\ pending[s] = Publish
  /\ uncounted' = uncounted - pending[s]
  /\ pending' = [pending EXCEPT ![s] = 0]
  /\ UNCHANGED <<mainVars, pc, walk, late, stopped, expired, somes, matched>>

\* Deviation: a search stops for a winner only.
Check_NoDeadline(s) ==
  /\ pending[s] # Publish
  /\ Goto(s, "top", IF stopped THEN "leave" ELSE "test")
  /\ UNCHANGED <<mainVars, pending, walk, late, stopped, expired, somes, uncounted, matched>>

\* The clock is read when nothing is pending only, every Publish candidates.
Check(s) ==
  /\ pending[s] # Publish
  /\ Goto(s, "top", IF stopped \/ (pending[s] = 0 /\ expired) THEN "leave" ELSE "test")
  /\ UNCHANGED <<mainVars, pending, walk, late, stopped, expired, somes, uncounted, matched>>

\* Deviation: a search that leaves does not publish what is pending.
Leave_Unpublished(s) ==
  /\ Goto(s, "leave", "ended")
  /\ UNCHANGED <<mainVars, pending, walk, late, stopped, expired, somes, uncounted, matched>>

\* return None
Leave(s) ==
  /\ Goto(s, "leave", "ended")
  /\ uncounted' = uncounted - pending[s]
  /\ UNCHANGED <<mainVars, pending, walk, late, stopped, expired, somes, matched>>

\* The next candidate of the walk (or of the generator) is tested.
Test(s) ==
  /\ \E match \in BOOLEAN :
       /\ Goto(s, "test", IF match THEN "publish" ELSE "top")
       /\ matched' = (matched \/ match)
  /\ pending' = [pending EXCEPT ![s] = @ + 1]
  /\ uncounted' = uncounted + 1
  /\ late' = [late EXCEPT ![s] = IF expired /\ @ <= Publish THEN @ + 1 ELSE @]
  /\ UNCHANGED <<mainVars, walk, stopped, expired, somes>>

PublishMatch(s) ==
  /\ Goto(s, "publish", "swap")
  /\ uncounted' = uncounted - pending[s]
  /\ UNCHANGED <<mainVars, pending, walk, late, stopped, expired, somes, matched>>

\* Deviation: the flag is set after a look at it that others may share.
Swap_Stale(s) ==
  /\ Goto(s, "swap", "ended")
  /\ stopped' = TRUE
  /\ somes' = somes \cup {s}
  /\ UNCHANGED <<mainVars, pending, walk, late, expired, uncounted, matched>>

\* Deviation: the winner does not tell the others.
Swap_Silent(s) ==
  /\ Goto(s, "swap", "ended")
  /\ somes' = IF stopped THEN somes ELSE somes \cup {s}
  /\ UNCHANGED <<mainVars, pending, walk, late, stopped, expired, uncounted, matched>>

\* if !stopped.swap(true) { Some(candidate) } else { None }
Swap(s) ==
  /\ Goto(s, "swap", "ended")
  /\ stopped' = TRUE
  /\ somes' = IF stopped THEN somes ELSE somes \cup {s}
  /\ UNCHANGED <<mainVars, pending, walk, late, expired, uncounted, matched>>

RunStep(s) ==
  PublishPending(s) \/ Check(s) \/ Leave(s) \/ Test(s) \/ PublishMatch(s) \/ Swap(s)

PoolStep(s) == Take(s) \/ Skip(s)

-----------------------------------------------------------------------------
(* The rounds. *)

\* for _ in 0..args.count, with a flag of its own for each round.
BeginRound ==
  /\ main = "rounds" /\ round < Count
  /\ main' = "search" /\ round' = round + 1
  /\ stopped' = FALSE /\ somes' = {} /\ matched' = FALSE
  /\ pc' = [s \in Searches |-> "waiting"]
  /\ UNCHANGED <<exported, lateHits, pending, walk, late, expired, uncounted>>

\* find_map_any returns when every item has: any Some there is, or None and
\* the loop is left.
EndRound ==
  /\ main = "search" /\ \A s \in Searches : pc[s] = "ended"
  /\ main' = IF somes = {} THEN "done" ELSE "report"
  /\ UNCHANGED <<round, exported, lateHits, searchVars, stopped, expired, somes, uncounted,
                 matched>>

\* The result, with iterations.load(), is counted, printed and saved.
Report ==
  /\ main = "report" /\ main' = "rounds"
  /\ \E s \in somes : exported' = Append(exported, <<s, walk[s]>>)
  /\ lateHits' = IF expired THEN lateHits + 1 ELSE lateHits
  /\ UNCHANGED <<round, searchVars, stopped, expired, somes, uncounted, matched>>

EndLoop ==
  /\ main = "rounds" /\ round = Count
  /\ main' = "done"
  /\ UNCHANGED <<round, exported, lateHits, searchVars, stopped, expired, somes, uncounted,
                 matched>>

MainStep == BeginRound \/ EndRound \/ Report \/ EndLoop

\* The deadline passes, if there is one.
Expire ==
  /\ ~expired /\ expired' = TRUE
  /\ UNCHANGED <<mainVars, searchVars, stopped, somes, uncounted, matched>>

Finished == main = "done" /\ UNCHANGED vars

Next == MainStep \/ (\E s \in Searches : RunStep(s) \/ PoolStep(s)) \/ Expire \/ Finished

Spec == Init /\ [][Next]_vars

Idle == \A s \in Searches : pc[s] \in {"waiting", "ended"}

\* The running threads are scheduled; a pool with nothing to run takes up an
\* item that waits.  (It need not run all items at once.)
Fairness ==
  /\ WF_vars(MainStep)
  /\ \A s \in Searches : WF_vars(RunStep(s))
  /\ WF_vars(Idle /\ \E s \in Searches : PoolStep(s))

FairSpec == Spec /\ Fairness

-----------------------------------------------------------------------------
(* Properties. *)

\* "Exactly one winner per round" (line 1121): never two searches with Some, of
\* which find_map_any would drop one, and no round in which a candidate matched
\* ends with none.
OneWinner ==
  /\ \A s, t \in somes : s = t
  /\ main \in {"report", "done"} /\ matched => somes # {}

\* The number of candidates printed with a result, and at the end, is exactly
\* the number tested, whoever won, lost or was never started; what progress
\* shows meanwhile lags by at most one publication per search.
ReportExact ==
  /\ main # "search" => uncounted = 0
  /\ uncounted <= Publish * Cardinality(Searches)

\* The deadline is looked at every Publish candidates only, and yet no search
\* tests more than that after it - in all rounds together; at most one result is
\* accepted after it, that of the round it passed in.
LateBounded == lateHits <= 1 /\ \A s \in Searches : late[s] <= Publish

\* "Discard the walk after a hit: never export two related keys from one walk"
\* (src/eth_walk.rs, line 4): no two results come from one walk.
NeverRelated ==
  \A i, j \in 1 .. Len(exported) : i # j => exported[i] # exported[j]

\* A match ends its round, the others leave in spite of an endless loop; and the
\* deadline ends the search.
EverySearchEnds ==
  /\ (matched /\ main = "search") ~> main # "search"
  /\ expired ~> main = "done"
=============================================================================
