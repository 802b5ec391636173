------------------------------ MODULE Progress ------------------------------
(***************************************************************************)
(* The progress display (src/src/progress.rs): a display thread that wakes *)
(* up, reads the shared counters and writes a line, next to the caller     *)
(* that counts, announces results, prints them and drops the Progress.     *)
(*                                                                         *)
(* The counters are relaxed atomics: the stores of one call become visible *)
(* in either order, and the loads of one wake-up are made in any order.    *)
(* The channel, the mutex and the join are the only synchronisation.       *)
(***************************************************************************)
EXTENDS Integers

CONSTANTS
  MaxAttempts,   \* bound: candidates counted
  MaxResults,    \* bound: results announced
  Target         \* the number of results asked for

BoundsFit == MaxAttempts \in Nat /\ MaxResults \in Nat /\ Target \in Nat

VARIABLES
  caller,      \* where the caller is
  unset,       \* stores of record_batch or found that are not visible yet
  counted,     \* the caller's load of attempts in found()
  gpu,         \* is it a GPU search?
  attempts, found, roundStart, gpuMode,   \* the atomics of State
  display,     \* who holds the display mutex: "free", "caller", "thread"
  poisoned,    \* did its holder panic?
  stop,        \* did the channel's sender send or go away?
  thread,      \* where the display thread is
  finished,    \* the thread's local: was it woken to finish?
  toRead,      \* the atomics it still has to load
  seen,        \* what it loaded
  previous,    \* attempts at its last rate sample
  line         \* the last line on the terminal

callerVars == <<caller, unset, counted, gpu>>
atomics    == <<attempts, found, roundStart, gpuMode>>
threadVars == <<thread, finished, toRead, seen, previous>>
vars == <<callerVars, atomics, display, poisoned, stop, threadVars, line>>

Fields == {"attempts", "found", "roundStart", "gpuMode"}
Unseen == [attempts |-> 0, found |-> 0, roundStart |-> 0, gpuMode |-> FALSE]
NoLine == [round |-> 0, attempts |-> 0, found |-> 0, rate |-> "none", state |-> "none"]

Init ==
  /\ caller = "run" /\ unset = {} /\ counted = 0 /\ gpu \in BOOLEAN
  /\ attempts = 0 /\ found = 0 /\ roundStart = 0 /\ gpuMode = FALSE
  /\ display = "free" /\ poisoned = FALSE /\ stop = FALSE
  /\ thread = "wait" /\ finished = FALSE /\ toRead = {} /\ seen = Unseen /\ previous = 0
  /\ line = NoLine

-----------------------------------------------------------------------------
(* The caller. *)

CallerAt(p, q) == caller = p /\ caller' = q

\* record_batch on a GPU, fetch_add by a search on a CPU.
BeginCount ==
  /\ CallerAt("run", "store") /\ attempts < MaxAttempts
  /\ unset' = {"attempts"} \cup (IF gpu THEN {"gpuMode"} ELSE {})
  /\ UNCHANGED <<counted, gpu, atomics, display, poisoned, stop, threadVars, line>>

\* found() loads attempts, stores round_start and adds one to found.
BeginFound ==
  /\ CallerAt("run", "store") /\ found < MaxResults /\ attempts > 0
  /\ counted' = attempts /\ unset' = {"roundStart", "found"}
  /\ UNCHANGED <<gpu, atomics, display, poisoned, stop, threadVars, line>>

\* One of the call's stores becomes visible to the display thread.
Visible ==
  /\ caller = "store"
  /\ \E f \in unset :
       /\ unset' = unset \ {f}
       /\ attempts' = IF f = "attempts" THEN attempts + 1 ELSE attempts
       /\ gpuMode' = (f = "gpuMode" \/ gpuMode)
       /\ roundStart' = IF f = "roundStart" THEN counted ELSE roundStart
       /\ found' = IF f = "found" THEN found + 1 ELSE found
  /\ UNCHANGED <<caller, counted, gpu, display, poisoned, stop, threadVars, line>>

Return ==
  /\ CallerAt("store", "run") /\ unset = {}
  /\ UNCHANGED <<unset, counted, gpu, atomics, display, poisoned, stop, threadVars, line>>

\* output() takes the display mutex and clears the line.
BeginOutput ==
  /\ CallerAt("run", "print") /\ found > 0
  /\ display = "free" /\ display' = "caller"
  /\ UNCHANGED <<unset, counted, gpu, atomics, poisoned, stop, threadVars, line>>

EndOutput ==
  /\ CallerAt("print", "run") /\ display' = "free"
  /\ UNCHANGED <<unset, counted, gpu, atomics, poisoned, stop, threadVars, line>>

\* println! panics when the output is closed: the guard poisons the mutex and
\* the Progress is dropped while the caller unwinds.
OutputPanics ==
  /\ CallerAt("print", "drop") /\ display' = "free" /\ poisoned' = TRUE
  /\ UNCHANGED <<unset, counted, gpu, atomics, stop, threadVars, line>>

BeginDrop ==
  /\ CallerAt("run", "drop")
  /\ UNCHANGED <<unset, counted, gpu, atomics, display, poisoned, stop, threadVars, line>>

\* The send, whose result does not matter, and the end of the sender.
SendStop ==
  /\ CallerAt("drop", "join") /\ stop' = TRUE
  /\ UNCHANGED <<unset, counted, gpu, atomics, display, poisoned, threadVars, line>>

\* join returns when the thread has returned or panicked.
Join ==
  /\ CallerAt("join", "gone") /\ thread \in {"returned", "panicked"}
  /\ UNCHANGED <<unset, counted, gpu, atomics, display, poisoned, stop, threadVars, line>>

Caller ==
  \/ BeginCount \/ BeginFound \/ Visible \/ Return
  \/ BeginOutput \/ EndOutput \/ OutputPanics
  \/ BeginDrop \/ SendStop \/ Join

-----------------------------------------------------------------------------
(* The display thread. *)

ThreadAt(p, q) ==
  /\ thread = p /\ thread' = q
  /\ UNCHANGED <<callerVars, atomics, stop, poisoned>>

\* recv_timeout returns: a time-out while nothing was sent, else the end.
WakeUp ==
  /\ ThreadAt("wait", "read")
  /\ finished' = stop /\ toRead' = Fields
  /\ UNCHANGED <<display, seen, previous, line>>

\* The relaxed loads of one wake-up.
Load ==
  /\ ThreadAt("read", "read")
  /\ \E f \in toRead :
       /\ toRead' = toRead \ {f}
       /\ seen' = [seen EXCEPT ![f] = CASE f = "attempts" -> attempts [] f = "found" -> found
                                      [] f = "roundStart" -> roundStart [] OTHER -> gpuMode]
  /\ UNCHANGED <<display, finished, previous, line>>

\* Deviation: whether to finish is decided after the loads.
Sample_LooksAtStop ==
  /\ ThreadAt("read", "lock") /\ toRead = {}
  /\ finished' = stop
  /\ previous' = IF ~seen.gpuMode /\ seen.attempts > previous THEN seen.attempts ELSE previous
  /\ UNCHANGED <<display, toRead, seen, line>>

\* Without devices the rate is sampled when there is something new; previous
\* stays behind otherwise.
Sample ==
  /\ ThreadAt("read", "lock") /\ toRead = {}
  /\ previous' = IF ~seen.gpuMode /\ seen.attempts > previous THEN seen.attempts ELSE previous
  /\ UNCHANGED <<display, finished, toRead, seen, line>>

Lock ==
  /\ ThreadAt("lock", "write") /\ display = "free" /\ ~poisoned
  /\ display' = "thread"
  /\ UNCHANGED <<finished, toRead, seen, previous, line>>

\* Deviation: a poisoned mutex is waited for.
LockPanics_Waits ==
  /\ ThreadAt("lock", "lock") /\ display = "free" /\ poisoned
  /\ UNCHANGED <<display, finished, toRead, seen, previous, line>>

\* unwrap() of a poisoned lock.
LockPanics ==
  /\ ThreadAt("lock", "panicked") /\ display = "free" /\ poisoned
  /\ UNCHANGED <<display, finished, toRead, seen, previous, line>>

\* attempts.saturating_sub(round_start)
Round == IF seen.attempts > seen.roundStart THEN seen.attempts - seen.roundStart ELSE 0

\* Devices report measured rates; the last line has the average of the run.
Rate ==
  IF seen.gpuMode THEN IF finished THEN "average" ELSE "devices"
  ELSE IF previous > 0 THEN "observed" ELSE "none"

\* Deviation: the end of the search is taken for its success.
LineState_Finished == IF finished THEN "done" ELSE "search"

LineState ==
  IF finished THEN IF seen.found >= Target THEN "done" ELSE "stopped" ELSE "search"

\* write! of render(...); errors are ignored.
Write ==
  /\ thread = "write" /\ thread' = IF finished THEN "returned" ELSE "wait"
  /\ line' = [round |-> Round, attempts |-> seen.attempts, found |-> seen.found,
              rate |-> Rate, state |-> LineState]
  /\ display' = "free"
  /\ UNCHANGED <<callerVars, atomics, stop, poisoned, finished, toRead, seen, previous>>

Thread == WakeUp \/ Load \/ Sample \/ Lock \/ LockPanics \/ Write

Finished == caller = "gone" /\ thread \in {"returned", "panicked"} /\ UNCHANGED vars

Next == Caller \/ Thread \/ Finished

Spec == Init /\ [][Next]_vars

\* Both threads are scheduled; the caller need not search, print or drop.
Fairness ==
  /\ WF_vars(Thread)
  /\ WF_vars(Visible \/ Return \/ EndOutput \/ OutputPanics \/ SendStop \/ Join)

FairSpec == Spec /\ Fairness

-----------------------------------------------------------------------------
(* Properties. *)

\* When dropping the Progress returns and no output panicked, the last line
\* shows the final counts, says whether the target was reached, and on a GPU
\* gives the average rate and not that of devices that are gone.
LastLineFinal ==
  caller = "gone" /\ ~poisoned =>
    /\ line.attempts = attempts /\ line.found = found
    /\ line.round = attempts - roundStart
    /\ line.state = IF found >= Target THEN "done" ELSE "stopped"
    /\ line.rate = IF gpuMode THEN "average" ELSE IF attempts > 0 THEN "observed" ELSE "none"

\* A line may mix counts of different moments, but each is a value the counter
\* had: none is ahead of it, the round is no more than the total, no search is
\* reported done early, and the counts on the terminal never go back.  A line
\* never falls into a result that is being printed, and none follows the drop.
LinesGoForward ==
  [][line' # line => /\ line'.attempts >= line.attempts /\ line'.found >= line.found
                     /\ line'.attempts <= attempts /\ line'.found <= found
                     /\ line'.round \in 0 .. line'.attempts
                     /\ line'.state = "done" => found >= Target
                     /\ caller \notin {"print", "gone"}]_vars

\* Dropping the Progress returns, also after a panic under the mutex.
DropReturns == caller = "drop" ~> caller = "gone"
=============================================================================
