--------------------------- MODULE SearchContract ---------------------------
(***************************************************************************)
(* What a GPU search promises its caller, with no threads and no channel:  *)
(* what run (src/gpu_scheduler.rs) returns, what it has counted by then,   *)
(* and which devices may still own native resources.  GpuScheduler is      *)
(* shown to implement this specification.                                  *)
(***************************************************************************)
EXTENDS Naturals

CONSTANTS Devices, Target

VARIABLES
  hits,      \* hits accepted
  halted,    \* has the search been told to stop?
  late,      \* has the deadline passed?
  broken,    \* has a device, the handler or both failed?
  busy,      \* devices that own native resources
  answer     \* "none" until run returns: "ok", "err" or "panic"

vars == <<hits, halted, late, broken, busy, answer>>

Init ==
  /\ hits = 0 /\ halted = FALSE /\ late \in BOOLEAN
  /\ broken = FALSE /\ busy = {} /\ answer = "none"

Open == answer = "none"

\* A hit counts only while the search has not been told to stop; the last one
\* asked for stops it.
Accept ==
  /\ Open /\ ~halted /\ hits < Target
  /\ hits' = hits + 1
  /\ halted' = (hits' = Target)
  /\ UNCHANGED <<late, broken, busy, answer>>

\* Besides the last hit, only the deadline or a failure stops a search.
Halt ==
  /\ Open /\ ~halted /\ (late \/ broken)
  /\ halted' = TRUE
  /\ UNCHANGED <<hits, late, broken, busy, answer>>

\* A failure of the coordinator's own stops the search as it happens; one of a
\* device does so when the coordinator hears of it.
Fail ==
  /\ Open /\ ~broken
  /\ broken' = TRUE
  /\ halted' \in {halted, TRUE}
  /\ UNCHANGED <<hits, late, busy, answer>>

\* A device takes and releases its resources, also after the search is stopped.
Acquire(d) ==
  /\ Open /\ d \notin busy
  /\ busy' = busy \cup {d}
  /\ UNCHANGED <<hits, halted, late, broken, answer>>

Release(d) ==
  /\ Open /\ d \in busy
  /\ busy' = busy \ {d}
  /\ UNCHANGED <<hits, halted, late, broken, answer>>

\* Ok: nothing failed, and the hits asked for are there or the time is up.
\* Otherwise an error.  Nothing is running on a device in either case.
AnswerOk ==
  /\ Open /\ busy = {} /\ ~broken /\ (hits = Target \/ late)
  /\ answer' = "ok"
  /\ UNCHANGED <<hits, halted, late, broken, busy>>

AnswerError ==
  /\ Open /\ busy = {} /\ broken
  /\ answer' \in {"err", "panic"}
  /\ UNCHANGED <<hits, halted, late, broken, busy>>

Expire ==
  /\ ~late /\ late' = TRUE
  /\ UNCHANGED <<hits, halted, broken, busy, answer>>

Next ==
  \/ Accept \/ Halt \/ Fail \/ AnswerOk \/ AnswerError \/ Expire
  \/ \E d \in Devices : Acquire(d) \/ Release(d)

Spec == Init /\ [][Next]_vars
=============================================================================
