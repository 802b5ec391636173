---------------------------- MODULE GpuScheduler ----------------------------
(***************************************************************************)
(* gpu_scheduler::run: one host thread per CUDA device runs batches and    *)
(* reports each over one bounded channel; a coordinator alone accepts hits *)
(* and acknowledges every batch before its device may run the next one.    *)
(*                                                                         *)
(* A hit is abstracted to a BOOLEAN (the batch carries one or not), an     *)
(* error to its presence, and the handler `handle` to what it returns for  *)
(* an event: Ok, Err or a panic.  GpuGenerate refines the handler.         *)
(*                                                                         *)
(* The branch that returns an error for zero devices (lines 50-52) is not  *)
(* modelled: main.rs:1033 calls the scheduler only when num_gpus > 0.      *)
(***************************************************************************)
EXTENDS Integers, Sequences, FiniteSets

CONSTANTS
  Devices,   \* the worker ids, 0..devices-1 in the code
  Target     \* `target`, the number of hits asked for (--count)

ASSUME DevicesAssumption == IsFiniteSet(Devices) /\ Devices # {}
ASSUME TargetAssumption  == Target \in Nat

VARIABLES
  coord,     \* where the coordinator is in the loop of lines 95-138
  alive,     \* `alive`: workers whose Stopped message has not been received
  found,     \* `found`: hits accepted so far
  error,     \* `error`: none yet, the first error, or an unwinding panic
  result,    \* what run has returned: nothing yet, Ok, Err or a panic
  stopped,   \* the AtomicBool `stopped`; only the coordinator stores it
  expired,   \* has the deadline passed?  Never true when deadline is None
  chan,      \* the bounded channel (tx, rx), oldest message first
  cur,       \* the message the coordinator is handling
  acks,      \* tokens in each worker's acknowledgement channel
  worker,    \* where each worker thread is in lines 67-92
  held,      \* does the thread own a constructed worker (native resources)?
  outcome    \* the thread's `outcome`: the closure's Ok, or Err / a panic

coordVars  == <<coord, alive, found, error, result, stopped, cur>>
workerVars == <<worker, held, outcome>>
vars == <<coordVars, expired, chan, acks, workerVars>>

-----------------------------------------------------------------------------
Message == [kind : {"batch", "failed", "stopped"}, dev : Devices, hit : BOOLEAN]
NoMessage == [kind |-> "none"]

\* Message::Batch, Message::Failed and Message::Stopped of worker d.
BatchMsg(d, h) == [kind |-> "batch", dev |-> d, hit |-> h]
FailedMsg(d)   == [kind |-> "failed", dev |-> d, hit |-> FALSE]
StoppedMsg(d)  == [kind |-> "stopped", dev |-> d, hit |-> FALSE]

\* Deviation: room for one message of each device.
Capacity_Single == Cardinality(Devices)

\* sync_channel(devices * 2): a send waits while this many messages wait.
Capacity == 2 * Cardinality(Devices)

\* The receiver and the acknowledgement senders die with the scope's closure.
Closed == coord \in {"join", "returned"}

Init ==
  /\ coord = "start" /\ alive = Cardinality(Devices)
  /\ found = 0 /\ error = "none" /\ result = "none"
  /\ stopped = FALSE
  /\ expired \in BOOLEAN              \* --max-runtime 0 has passed at once
  /\ chan = <<>> /\ cur = NoMessage
  /\ acks = [d \in Devices |-> 0]
  /\ worker = [d \in Devices |-> "idle"]
  /\ held = [d \in Devices |-> FALSE]
  /\ outcome = [d \in Devices |-> "ok"]

-----------------------------------------------------------------------------
(* Worker threads. *)

Goto(d, from, to) ==
  /\ worker[d] = from
  /\ worker' = [worker EXCEPT ![d] = to]

\* make_worker(id) constructs the device's resources on its own thread.
MakeWorker(d) ==
  /\ Goto(d, "make", "check")
  /\ held' = [held EXCEPT ![d] = TRUE]
  /\ UNCHANGED <<coordVars, expired, chan, acks, outcome>>

\* make_worker(id) returns Err or panics: there is nothing to drop.
MakeWorkerFails(d) ==
  /\ Goto(d, "make", "fail")
  /\ outcome' = [outcome EXCEPT ![d] = "err"]
  /\ UNCHANGED <<coordVars, expired, chan, acks, held>>

\* Deviation: the loop condition looks at the deadline alone.
CheckStop_DeadlineOnly(d) ==
  /\ Goto(d, "check", IF expired THEN "drop" ELSE "batch")
  /\ UNCHANGED <<coordVars, expired, chan, acks, held, outcome>>

\* The loop condition.  Both values only ever turn true, so reading them at
\* one instant allows exactly what reading `stopped` before the clock allows.
CheckStop(d) ==
  /\ Goto(d, "check", IF stopped \/ expired THEN "drop" ELSE "batch")
  /\ UNCHANGED <<coordVars, expired, chan, acks, held, outcome>>

RunBatch(d) ==
  /\ Goto(d, "batch", "send")
  /\ UNCHANGED <<coordVars, expired, chan, acks, held, outcome>>

\* Deviation: the failure is reported while the worker is still constructed.
RunBatchFails_Early(d) ==
  /\ Goto(d, "batch", "fail")
  /\ outcome' = [outcome EXCEPT ![d] = "err"]
  /\ UNCHANGED <<coordVars, expired, chan, acks, held>>

\* worker.batch() returns Err or panics; `?` or the unwinding ends the loop.
RunBatchFails(d) ==
  /\ Goto(d, "batch", "drop")
  /\ outcome' = [outcome EXCEPT ![d] = "err"]
  /\ UNCHANGED <<coordVars, expired, chan, acks, held>>

\* tx.send: waits for room, and fails once the receiver is gone.
Send(m) ==
  \/ ~Closed /\ Len(chan) < Capacity /\ chan' = Append(chan, m)
  \/ Closed /\ UNCHANGED chan

\* Deviation: the thread runs its next batch without an acknowledgement.
SendBatch_Ahead(d) ==
  /\ \E h \in BOOLEAN : Send(BatchMsg(d, h))
  /\ Goto(d, "send", IF Closed THEN "drop" ELSE "check")
  /\ UNCHANGED <<coordVars, expired, acks, held, outcome>>

SendBatch(d) ==
  /\ \E h \in BOOLEAN : Send(BatchMsg(d, h))
  /\ Goto(d, "send", IF Closed THEN "drop" ELSE "ack")
  /\ UNCHANGED <<coordVars, expired, acks, held, outcome>>

\* ack_rx.recv: takes a token, or fails when there is none and none can come.
ReceiveAck(d) ==
  /\ \/ acks[d] > 0 /\ acks' = [acks EXCEPT ![d] = @ - 1]
     \/ acks[d] = 0 /\ Closed /\ UNCHANGED acks
  /\ Goto(d, "ack", IF acks[d] > 0 THEN "check" ELSE "drop")
  /\ UNCHANGED <<coordVars, expired, chan, held, outcome>>

\* The closure ends and drops `worker` before any message about it is sent.
DropWorker(d) ==
  /\ Goto(d, "drop", IF outcome[d] = "ok" THEN "stop" ELSE "fail")
  /\ held' = [held EXCEPT ![d] = FALSE]
  /\ UNCHANGED <<coordVars, expired, chan, acks, outcome>>

\* Deviation: a failed thread reports that it stopped and nothing more.
SendFailed_Silent(d) ==
  /\ Goto(d, "fail", "stop")
  /\ UNCHANGED <<coordVars, expired, chan, acks, held, outcome>>

SendFailed(d) ==
  /\ Send(FailedMsg(d))
  /\ Goto(d, "fail", "stop")
  /\ UNCHANGED <<coordVars, expired, acks, held, outcome>>

SendStopped(d) ==
  /\ Send(StoppedMsg(d))
  /\ Goto(d, "stop", "exited")
  /\ UNCHANGED <<coordVars, expired, acks, held, outcome>>

WorkerStep(d) ==
  \/ MakeWorker(d) \/ MakeWorkerFails(d) \/ CheckStop(d)
  \/ RunBatch(d) \/ RunBatchFails(d) \/ SendBatch(d) \/ ReceiveAck(d)
  \/ DropWorker(d) \/ SendFailed(d) \/ SendStopped(d)

-----------------------------------------------------------------------------
(* The coordinator. *)

\* Nothing to do: no hits asked for, or the deadline has already passed.
StartIdle ==
  /\ coord = "start" /\ (Target = 0 \/ expired)
  /\ coord' = "returned" /\ result' = "ok"
  /\ UNCHANGED <<alive, found, error, stopped, cur, expired, chan, acks, workerVars>>

\* A thread per device; when each one gets to run is left to the scheduler.
SpawnWorkers ==
  /\ coord = "start" /\ Target > 0 /\ ~expired
  /\ coord' = "top"
  /\ worker' = [d \in Devices |-> "make"]
  /\ UNCHANGED <<alive, found, error, result, stopped, cur, expired, chan, acks,
                 held, outcome>>

\* while alive > 0 { if expired() { stopped.store(true) } ... }
LoopTop ==
  /\ coord = "top"
  /\ coord' = IF alive > 0 THEN "recv" ELSE "join"
  /\ stopped' = (stopped \/ (alive > 0 /\ expired))
  /\ UNCHANGED <<alive, found, error, result, cur, expired, chan, acks, workerVars>>

\* recv_timeout with nothing to receive: Timeout after 50ms, or Disconnected
\* (and out of the loop) when every sender is gone.
ReceiveNothing ==
  /\ coord = "recv" /\ chan = <<>>
  /\ coord' = IF \A d \in Devices : worker[d] = "exited" THEN "join" ELSE "top"
  /\ UNCHANGED <<alive, found, error, result, stopped, cur, expired, chan, acks,
                 workerVars>>

Receive(kind) ==
  /\ coord = "recv" /\ chan # <<>> /\ Head(chan).kind = kind
  /\ chan' = Tail(chan)

\* Deviation: the hit of a batch that arrives late is kept.
ReceiveBatch_KeepsHit ==
  /\ Receive("batch")
  /\ coord' = "handle"
  /\ stopped' = (stopped \/ expired)
  /\ cur' = Head(chan)
  /\ UNCHANGED <<alive, found, error, result, expired, acks, workerVars>>

\* A batch that arrives once the search is stopped is counted, its hit dropped.
ReceiveBatch ==
  /\ Receive("batch")
  /\ coord' = "handle"
  /\ stopped' = (stopped \/ expired)
  /\ cur' = [Head(chan) EXCEPT !.hit = @ /\ ~stopped']
  /\ UNCHANGED <<alive, found, error, result, expired, acks, workerVars>>

\* Deviation: an error is noted and the devices go on.
RecordError_GoesOn ==
  /\ error' = "err"
  /\ UNCHANGED stopped

\* error.get_or_insert(e); stopped.store(true)
RecordError ==
  /\ error' = "err"
  /\ stopped' = TRUE

\* Deviation: the last hit asked for does not stop the search.
HandleBatchOk_NoStop ==
  /\ coord = "handle"
  /\ found' = IF cur.hit THEN found + 1 ELSE found
  /\ coord' = "ack"
  /\ UNCHANGED <<alive, stopped, error, result, cur, expired, chan, acks, workerVars>>

HandleBatchOk ==
  /\ coord = "handle"
  /\ found' = IF cur.hit THEN found + 1 ELSE found
  /\ stopped' = (stopped \/ (cur.hit /\ found' = Target))
  /\ coord' = "ack"
  /\ UNCHANGED <<alive, error, result, cur, expired, chan, acks, workerVars>>

\* Deviation: a handler error skips the acknowledgement.
HandleBatchErr_NoAck ==
  /\ coord = "handle"
  /\ RecordError
  /\ coord' = "top" /\ cur' = NoMessage
  /\ UNCHANGED <<alive, found, result, expired, chan, acks, workerVars>>

HandleBatchErr ==
  /\ coord = "handle"
  /\ RecordError
  /\ coord' = "ack"
  /\ UNCHANGED <<alive, found, result, cur, expired, chan, acks, workerVars>>

\* The handler panics: the closure unwinds and drops both channel ends, with
\* whatever the channel still holds; the scope then joins the threads.
HandlePanics ==
  /\ coord \in {"handle", "handleStopped"}
  /\ coord' = "join" /\ error' = "panic"
  /\ chan' = <<>> /\ cur' = NoMessage
  /\ UNCHANGED <<alive, found, result, stopped, expired, acks, workerVars>>

Acknowledge ==
  /\ coord = "ack"
  /\ acks' = [acks EXCEPT ![cur.dev] = @ + 1]
  /\ coord' = "top" /\ cur' = NoMessage
  /\ UNCHANGED <<alive, found, error, result, stopped, expired, chan, workerVars>>

\* Deviation: a failed device counts as gone before its Stopped message.
ReceiveFailed_Leaves ==
  /\ Receive("failed")
  /\ RecordError
  /\ alive' = alive - 1
  /\ coord' = "top"
  /\ UNCHANGED <<found, result, cur, expired, acks, workerVars>>

\* Deviation: the device's failure stops the search and is not kept.
ReceiveFailed_Forgets ==
  /\ Receive("failed")
  /\ stopped' = TRUE
  /\ coord' = "top"
  /\ UNCHANGED <<alive, found, error, result, cur, expired, acks, workerVars>>

ReceiveFailed ==
  /\ Receive("failed")
  /\ RecordError
  /\ coord' = "top"
  /\ UNCHANGED <<alive, found, result, cur, expired, acks, workerVars>>

ReceiveStopped ==
  /\ Receive("stopped")
  /\ alive' = alive - 1
  /\ coord' = "handleStopped" /\ cur' = Head(chan)
  /\ UNCHANGED <<found, error, result, stopped, expired, acks, workerVars>>

HandleStoppedOk ==
  /\ coord = "handleStopped"
  /\ coord' = "top" /\ cur' = NoMessage
  /\ UNCHANGED <<alive, found, error, result, stopped, expired, chan, acks, workerVars>>

HandleStoppedErr ==
  /\ coord = "handleStopped"
  /\ RecordError
  /\ coord' = "top" /\ cur' = NoMessage
  /\ UNCHANGED <<alive, found, result, expired, chan, acks, workerVars>>

\* thread::scope returns when every thread has been joined.
Return ==
  /\ coord = "join" /\ \A d \in Devices : worker[d] = "exited"
  /\ coord' = "returned"
  /\ result' = IF error = "none" THEN "ok" ELSE error
  /\ UNCHANGED <<alive, found, error, stopped, cur, expired, chan, acks, workerVars>>

CoordStep ==
  \/ StartIdle \/ SpawnWorkers \/ LoopTop \/ ReceiveNothing
  \/ ReceiveBatch \/ HandleBatchOk \/ HandleBatchErr \/ Acknowledge
  \/ ReceiveFailed \/ ReceiveStopped \/ HandleStoppedOk \/ HandleStoppedErr
  \/ HandlePanics \/ Return

\* The clock passes the deadline, if there is one.
Expire ==
  /\ ~expired /\ expired' = TRUE
  /\ UNCHANGED <<coordVars, chan, acks, workerVars>>

\* The caller has its answer.
Finished == coord = "returned" /\ UNCHANGED vars

Next == CoordStep \/ (\E d \in Devices : WorkerStep(d)) \/ Expire \/ Finished

Spec == Init /\ [][Next]_vars

\* Threads are scheduled, a CUDA batch and a handler call end; nothing says
\* that a deadline exists, that a hit turns up or that anything fails.
Fairness ==
  /\ WF_vars(CoordStep)
  /\ \A d \in Devices : WF_vars(WorkerStep(d))

FairSpec == Spec /\ Fairness

-----------------------------------------------------------------------------
(* Properties. *)

\* Every variable has its type; an acknowledgement channel never holds more
\* than the one token its worker waits for.
TypeOK ==
  /\ coord \in {"start", "top", "recv", "handle", "ack", "handleStopped", "join",
                "returned"}
  /\ alive \in 0 .. Cardinality(Devices) /\ found \in Nat
  /\ error \in {"none", "err", "panic"} /\ result \in {"none", "ok", "err", "panic"}
  /\ stopped \in BOOLEAN /\ expired \in BOOLEAN
  /\ chan \in Seq(Message) /\ cur \in Message \cup {NoMessage}
  /\ acks \in [Devices -> {0, 1}]
  /\ worker \in [Devices -> {"idle", "make", "check", "batch", "send", "ack", "drop",
                             "fail", "stop", "exited"}]
  /\ held \in [Devices -> BOOLEAN] /\ outcome \in [Devices -> {"ok", "err"}]

\* "Acknowledgements bound each device to one unconsumed batch, even during
\* saves" (lines 1-2): wherever a batch of d may wait - in its thread, in the
\* channel, in the handler - it waits in one place at most.
Unconsumed(d) ==
  (IF worker[d] = "send" THEN {<<"thread", 0>>} ELSE {})
  \cup {<<"channel", i>> : i \in {j \in 1 .. Len(chan) :
                                    chan[j].kind = "batch" /\ chan[j].dev = d}}
  \cup (IF coord \in {"handle", "ack"} /\ cur.dev = d THEN {<<"handler", 0>>} ELSE {})

OneUnconsumed == \A d \in Devices : \A p, q \in Unconsumed(d) : p = q

\* The capacity of line 58 is enough: a thread that has a message to send
\* never waits for room, so a slow handler cannot hold up a device's exit.
SendNeverWaits ==
  ~Closed /\ (\E d \in Devices : worker[d] \in {"send", "fail", "stop"})
    => Len(chan) < Capacity

\* Several devices may hit at once; no more hits than asked for are accepted.
HitsBounded == found <= Target

\* run answers Ok only when it has what was asked for or the time is up, and
\* never when a device or the handler failed: no error is lost on the way.
OkIsEarned ==
  result = "ok" =>
    /\ found = Target \/ expired
    /\ \A d \in Devices : outcome[d] = "ok"

\* The loop ends by its condition (or by a panic), never by the Disconnected
\* arm, and then every thread is gone and every message has been received.
NothingLeftBehind ==
  coord \in {"join", "returned"} /\ error # "panic" /\ (\E d \in Devices : worker[d] # "idle")
    => /\ alive = 0 /\ chan = <<>>
       /\ \A d \in Devices : worker[d] = "exited"

\* A device is reported as failed or stopped only when its thread has dropped
\* its native resources, and run returns only when all threads have ("Construct
\* and drop native resources on their owning thread", line 69).
ReleasedWhenReported ==
  /\ \A i \in 1 .. Len(chan) : chan[i].kind # "batch" => ~held[chan[i].dev]
  /\ coord = "handleStopped" => ~held[cur.dev]
  /\ result # "none" => \A d \in Devices : ~held[d]

\* No hit is accepted once the search is stopped, nor after the deadline
\* unless its batch was already in the handler when the deadline passed.
NoLateHit ==
  [][stopped \/ (expired /\ coord # "handle") => found' = found]_vars

\* With its threads mapped away, the scheduler does what a search promises.
Contract == INSTANCE SearchContract WITH
  hits   <- found,
  halted <- stopped,
  late   <- expired,
  broken <- error # "none" \/ (\E d \in Devices : outcome[d] = "err"),
  busy   <- {d \in Devices : held[d]},
  answer <- result

Refines == Contract!Spec

\* Once there is a reason to end - the last hit, the deadline, an error, a
\* failed device or a panic - run returns.
StopLeadsToAnswer ==
  (stopped \/ expired \/ error # "none" \/ (\E d \in Devices : outcome[d] = "err"))
    ~> result # "none"

\* A thread that waits for an acknowledgement goes on: batches are answered
\* even after an error, and a panic of the handler hangs up.
AckComes == \A d \in Devices : (worker[d] = "ack") ~> (worker[d] # "ack")

\* A device that fails makes the whole search fail.
FailureSurfaces ==
  \A d \in Devices : (outcome[d] = "err") ~> (result \in {"err", "panic"})
=============================================================================
