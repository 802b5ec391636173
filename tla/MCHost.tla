------------------------------- MODULE MCHost -------------------------------
(***************************************************************************)
(* The host without a GPU, side by side: a behaviour is one of CpuSearch   *)
(* or of Progress.  The variables of the one that does not run are those   *)
(* of one that has ended, and stay.                                        *)
(***************************************************************************)
EXTENDS CpuSearch

CONSTANTS MaxAttempts, MaxResults, Target   \* Progress

VARIABLES
  part,        \* "search" or "display"
  caller, unset, counted, gpu, attempts, found, roundStart, gpuMode, display, poisoned, stop,
  thread, finished, toRead, seen, previous, line   \* Progress

Display == INSTANCE Progress

ASSUME DisplayAssumption == Display!BoundsFit

SearchOver ==
  /\ main = "done" /\ round = 0 /\ exported = <<>> /\ lateHits = 0
  /\ pc = [s \in Searches |-> "ended"] /\ pending = [s \in Searches |-> 0]
  /\ walk = [s \in Searches |-> 0] /\ late = [s \in Searches |-> 0]
  /\ stopped = TRUE /\ expired = TRUE /\ somes = {} /\ uncounted = 0 /\ matched = FALSE

DisplayOver ==
  /\ caller = "gone" /\ thread = "returned" /\ unset = {} /\ counted = 0 /\ gpu = FALSE
  /\ attempts = 0 /\ found = 0 /\ roundStart = 0 /\ gpuMode = FALSE
  /\ display = "free" /\ poisoned = FALSE /\ stop = TRUE
  /\ finished = TRUE /\ toRead = {} /\ seen = Display!Unseen /\ previous = 0
  /\ line = [Display!NoLine EXCEPT !.state = "stopped"]

displayVars ==
  <<caller, unset, counted, gpu, attempts, found, roundStart, gpuMode, display, poisoned, stop,
    thread, finished, toRead, seen, previous, line>>

HostInit ==
  \/ part = "search"  /\ Init /\ DisplayOver
  \/ part = "display" /\ SearchOver /\ Display!Init

HostNext ==
  /\ UNCHANGED part
  /\ \/ part = "search"  /\ Next /\ UNCHANGED displayVars
     \/ part = "display" /\ Display!Next /\ UNCHANGED vars

HostSpec == HostInit /\ [][HostNext]_<<part, vars, displayVars>> /\ Fairness /\ Display!Fairness

-----------------------------------------------------------------------------
(* Progress's properties. *)

\* When dropping the Progress returns and no output panicked, the last line
\* shows the final counts, says whether the target was reached, and on a GPU
\* gives the average rate and not that of devices that are gone.
LastLineFinal == part = "display" => Display!LastLineFinal

\* Lines show counts that were, go forward, and never fall into a result that is
\* being printed or come after the drop.
LinesGoForward == Display!LinesGoForward

\* Dropping the Progress returns, also after a panic under the mutex.
DropReturns == Display!DropReturns
=============================================================================
