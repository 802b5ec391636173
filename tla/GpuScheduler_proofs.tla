------------------------ MODULE GpuScheduler_proofs ------------------------
(***************************************************************************)
(* Proofs about GpuScheduler, for any finite set of devices and any target.*)
(*                                                                         *)
(* The properties of GpuScheduler are not inductive.  IInv adds what makes *)
(* them so: in what order the messages of a device wait (Order), where its *)
(* thread is meanwhile (Origin), what the coordinator has in hand (Desk),  *)
(* which devices `alive` still counts (Count), how a thread ended (Thread) *)
(* and why the search did (Reason).                                        *)
(***************************************************************************)
EXTENDS GpuScheduler, FiniteSetTheorems, TLAPS

Kinds == {"batch", "failed", "stopped"}
Pos   == 1 .. Len(chan)

\* A message of kind k of device d waits in the channel.
Has(d, k) == \E i \in Pos : chan[i].dev = d /\ chan[i].kind = k
Silent(d) == \A k \in Kinds : ~Has(d, k)

\* Two messages of one device wait only when it failed and then stopped.
Order ==
  \A i, j \in Pos : i < j /\ chan[i].dev = chan[j].dev =>
    chan[i].kind = "failed" /\ chan[j].kind = "stopped"

\* Each kind of message, and a token, says where its thread is.
Origin ==
  \A d \in Devices :
    /\ Has(d, "batch") => worker[d] = "ack" /\ acks[d] = 0
    /\ Has(d, "failed") => worker[d] = "stop" \/ (worker[d] = "exited" /\ Has(d, "stopped"))
    /\ Has(d, "stopped") => worker[d] = "exited"
    /\ acks[d] > 0 => worker[d] = "ack" /\ Silent(d)

\* The device whose message the coordinator handles has no other one waiting.
Desk ==
  /\ coord \in {"handle", "ack", "handleStopped"} =>
       cur \in Message /\ \E d \in Devices : cur.dev = d /\ Silent(d)
  /\ coord \in {"handle", "ack"} => worker[cur.dev] = "ack" /\ acks[cur.dev] = 0
  /\ coord = "handleStopped" => worker[cur.dev] = "exited"
  /\ coord = "handle" /\ cur.hit => ~stopped

\* `alive` counts the devices that have not exited or have a message waiting.
Present == {d \in Devices : worker[d] # "exited" \/ ~Silent(d)}

Count ==
  /\ error # "panic" => alive = Cardinality(Present)
  /\ coord = "recv" => alive > 0

\* Before the loop no thread has started; after it every one has exited and
\* nothing waits, unless the handler's panic cut the loop short.
Ends ==
  /\ coord = "start" => found = 0 /\ error = "none" /\ ~stopped
                        /\ \A d \in Devices : worker[d] = "idle"
  /\ coord = "start" \/ Closed => \A d \in Devices : Silent(d)
  /\ Closed /\ error # "panic" =>
       \/ \A d \in Devices : worker[d] = "exited"
       \/ coord = "returned" /\ \A d \in Devices : worker[d] = "idle"
  /\ coord = "returned" =>
       (\A d \in Devices : worker[d] = "exited") \/ (\A d \in Devices : worker[d] = "idle")
  /\ error = "panic" => Closed

\* What a thread holds and how it ended; its failure waits to be received or
\* has been.
Thread ==
  \A d \in Devices :
    /\ held[d] <=> worker[d] \in {"check", "batch", "send", "ack", "drop"}
    /\ outcome[d] = "err" => worker[d] \in {"drop", "fail", "stop", "exited"}
    /\ worker[d] = "fail" => outcome[d] = "err"
    /\ outcome[d] = "err" /\ worker[d] \in {"stop", "exited"} =>
         error # "none" \/ Has(d, "failed")
    /\ worker[d] \in {"drop", "fail", "stop", "exited"} =>
         stopped \/ expired \/ outcome[d] = "err" \/ error = "panic"

\* Why the search is stopped, and what it answers.
Reason ==
  /\ found <= Target
  /\ coord \notin {"start", "returned"} /\ ~stopped => found < Target
  /\ stopped => found = Target \/ expired \/ error # "none"
  /\ error = "err" => stopped
  /\ result = "none" <=> coord # "returned"
  /\ result = "ok" => error = "none" /\ (found = Target \/ expired)
                      /\ \A d \in Devices : outcome[d] = "ok"

\* The inductive invariant.
IInv == TypeOK /\ Order /\ Origin /\ Desk /\ Count /\ Ends /\ Thread /\ Reason

-----------------------------------------------------------------------------
(* What sending and receiving do to the channel. *)

LEMMA Positions ==
  ASSUME TypeOK
  PROVE  \A i \in Pos : /\ i \in Nat /\ chan[i] \in Message
                        /\ chan[i].dev \in Devices /\ chan[i].kind \in Kinds
<1>1. chan \in Seq(Message)
  BY DEF TypeOK
<1>2. \A i \in Pos : i \in Nat /\ chan[i] \in Message
  BY <1>1 DEF Pos
<1> QED BY <1>2 DEF Message, Kinds

\* An action that leaves the channel alone leaves every message waiting.
LEMMA HasKept ==
  ASSUME UNCHANGED chan
  PROVE  \A d, k : Has(d, k)' <=> Has(d, k)
BY DEF Has, Pos

LEMMA HasNone ==
  ASSUME chan' = <<>>
  PROVE  \A d, k : ~Has(d, k)'
BY DEF Has, Pos

LEMMA HasNothing ==
  ASSUME chan = <<>>
  PROVE  \A d, k : ~Has(d, k)
BY DEF Has, Pos

\* Send(m) adds m behind the others, or nothing when the receiver is gone.
LEMMA SendAppends ==
  ASSUME TypeOK, NEW m \in Message, Send(m)
  PROVE  /\ chan' \in Seq(Message)
         /\ Closed => chan' = chan
         /\ ~Closed => /\ Pos' = Pos \cup {Len(chan) + 1} /\ Len(chan) \in Nat
                       /\ chan'[Len(chan) + 1] = m
                       /\ \A i \in Pos : chan'[i] = chan[i] /\ i < Len(chan) + 1
<1>1. CASE Closed
  BY <1>1 DEF Send, TypeOK
<1>2. CASE ~Closed
  <2>1. chan' = Append(chan, m) /\ chan \in Seq(Message)
    BY <1>2 DEF Send, TypeOK
  <2>2. /\ Len(chan') = Len(chan) + 1 /\ Len(chan) \in Nat
        /\ chan'[Len(chan) + 1] = m /\ chan' \in Seq(Message)
        /\ \A i \in 1 .. Len(chan) : chan'[i] = chan[i]
    BY <2>1
  <2> QED BY <1>2, <2>2 DEF Pos
<1> QED BY <1>1, <1>2

LEMMA HasSent ==
  ASSUME TypeOK, NEW m \in Message, Send(m)
  PROVE  \A d, k : Has(d, k)' <=> Has(d, k) \/ (~Closed /\ d = m.dev /\ k = m.kind)
<1>1. CASE Closed
  BY <1>1, SendAppends, HasKept
<1>2. CASE ~Closed
  <2> DEFINE last == Len(chan) + 1
  <2>1. /\ Pos' = Pos \cup {last} /\ chan'[last] = m
        /\ \A i \in Pos : chan'[i] = chan[i]
    BY <1>2, SendAppends
  <2> QED BY <1>2, <2>1 DEF Has
<1> QED BY <1>1, <1>2

\* Receive takes the oldest message; with Order it was the only one of its
\* device and kind.
LEMMA ReceiveRemoves ==
  ASSUME TypeOK, NEW k, Receive(k)
  PROVE  /\ chan' \in Seq(Message) /\ coord = "recv"
         /\ 1 \in Pos /\ Head(chan) = chan[1] /\ chan[1] \in Message /\ chan[1].kind = k
         /\ \A i \in Pos' : i \in Nat /\ i + 1 \in Pos /\ chan'[i] = chan[i + 1]
         /\ \A i \in Pos : i # 1 => 1 < i /\ i - 1 \in Pos' /\ chan'[i - 1] = chan[i]
<1>1. chan \in Seq(Message) /\ chan # <<>> /\ chan' = Tail(chan)
  BY DEF Receive, TypeOK
<1>2. Len(chan) \in Nat /\ Len(chan) > 0 /\ Len(chan') = Len(chan) - 1
      /\ \A i \in 1 .. Len(chan') : chan'[i] = chan[i + 1]
  BY <1>1
<1> QED BY <1>1, <1>2 DEF Receive, Pos

LEMMA HasReceived ==
  ASSUME TypeOK, Order, NEW k, Receive(k)
  PROVE  \E d \in Devices :
           /\ Head(chan) \in Message /\ Head(chan).dev = d /\ Head(chan).kind = k
           /\ Has(d, k)
           /\ \A e, l : Has(e, l)' <=> Has(e, l) /\ ~(e = d /\ l = k)
           /\ k # "failed" => \A l : ~Has(d, l)'
<1> DEFINE d == chan[1].dev
<1>1. /\ 1 \in Pos /\ Head(chan) = chan[1] /\ chan[1] \in Message /\ chan[1].kind = k
      /\ \A i \in Pos' : i \in Nat /\ i + 1 \in Pos /\ chan'[i] = chan[i + 1]
      /\ \A i \in Pos : i # 1 => 1 < i /\ i - 1 \in Pos' /\ chan'[i - 1] = chan[i]
  BY ReceiveRemoves
<1>2. d \in Devices /\ Has(d, k)
  BY <1>1 DEF Message, Has
<1>3. ASSUME NEW e, NEW l, Has(e, l)'
      PROVE  Has(e, l) /\ ~(e = d /\ l = k) /\ ~(e = d /\ k # "failed")
  <2>1. PICK i \in Pos' : chan'[i].dev = e /\ chan'[i].kind = l
    BY <1>3 DEF Has
  <2>2. i + 1 \in Pos /\ 1 < i + 1 /\ chan[i + 1].dev = e /\ chan[i + 1].kind = l
    <3>1. i \in 1 .. Len(chan')
      BY <2>1 DEF Pos
    <3> QED BY <1>1, <2>1, <3>1
  <2>3. e = d => k = "failed" /\ l = "stopped"
    BY <1>1, <2>2 DEF Order
  <2> QED BY <2>2, <2>3 DEF Has
<1>4. ASSUME NEW e, NEW l, Has(e, l), ~(e = d /\ l = k)
      PROVE  Has(e, l)'
  <2>1. PICK i \in Pos : chan[i].dev = e /\ chan[i].kind = l
    BY <1>4 DEF Has
  <2>2. i # 1
    BY <1>1, <1>4, <2>1
  <2> QED BY <1>1, <2>1, <2>2 DEF Has
<1> QED BY <1>1, <1>2, <1>3, <1>4

LEMMA MessageTypes ==
  ASSUME NEW d \in Devices
  PROVE  /\ \A h \in BOOLEAN : /\ BatchMsg(d, h) \in Message
                               /\ BatchMsg(d, h).kind = "batch" /\ BatchMsg(d, h).dev = d
         /\ FailedMsg(d) \in Message
         /\ FailedMsg(d).kind = "failed" /\ FailedMsg(d).dev = d
         /\ StoppedMsg(d) \in Message
         /\ StoppedMsg(d).kind = "stopped" /\ StoppedMsg(d).dev = d
BY DEF BatchMsg, FailedMsg, StoppedMsg, Message

\* The three messages a thread sends.
LEMMA BatchSent ==
  ASSUME TypeOK, NEW d \in Devices, NEW h \in BOOLEAN, Send(BatchMsg(d, h))
  PROVE  /\ chan' \in Seq(Message)
         /\ \A e, k : Has(e, k)' <=> Has(e, k) \/ (~Closed /\ e = d /\ k = "batch")
BY SendAppends, HasSent, MessageTypes

LEMMA FailedSent ==
  ASSUME TypeOK, NEW d \in Devices, Send(FailedMsg(d))
  PROVE  /\ chan' \in Seq(Message)
         /\ \A e, k : Has(e, k)' <=> Has(e, k) \/ (~Closed /\ e = d /\ k = "failed")
BY SendAppends, HasSent, MessageTypes

LEMMA StoppedSent ==
  ASSUME TypeOK, NEW d \in Devices, Send(StoppedMsg(d))
  PROVE  /\ chan' \in Seq(Message)
         /\ \A e, k : Has(e, k)' <=> Has(e, k) \/ (~Closed /\ e = d /\ k = "stopped")
BY SendAppends, HasSent, MessageTypes

LEMMA CardinalityDevices == Cardinality(Devices) \in Nat
BY DevicesAssumption, FS_CardinalityType

\* When `alive` is 0 every device has exited and been heard of.
LEMMA NoneAlive ==
  ASSUME Count, error # "panic", alive = 0
  PROVE  \A d \in Devices : worker[d] = "exited" /\ Silent(d)
<1>1. IsFiniteSet(Present)
  BY DevicesAssumption, FS_Subset DEF Present
<1>2. Present = {}
  BY <1>1, FS_EmptySet DEF Count
<1> QED BY <1>2 DEF Present

-----------------------------------------------------------------------------
(* Every step keeps the inductive invariant, one conjunct at a time. *)

\* A device sends in its own order and nothing between a batch and its answer.
LEMMA OrderStep == ASSUME IInv, Next PROVE Order'
<1> USE DEF IInv
<1>1. CASE UNCHANGED chan
  BY <1>1 DEF Order, Pos
<1>2. CASE chan' = <<>>
  BY <1>2 DEF Order, Pos
<1>3. ASSUME NEW d \in Devices, NEW m \in Message, Send(m), m.dev = d, ~Closed,
             \/ Silent(d)
             \/ m.kind = "stopped" /\ ~Has(d, "batch") /\ ~Has(d, "stopped")
      PROVE  Order'
  <2>1. /\ Pos' = Pos \cup {Len(chan) + 1} /\ Len(chan) \in Nat
        /\ chan'[Len(chan) + 1] = m
        /\ \A i \in Pos : chan'[i] = chan[i] /\ i < Len(chan) + 1
    BY <1>3, SendAppends
  <2>2. ASSUME NEW i \in Pos, chan[i].dev = d
        PROVE  chan[i].kind = "failed" /\ m.kind = "stopped"
    BY <1>3, <2>2, Positions DEF Silent, Has, Kinds
  <2>3. \A i, j \in Pos' : i < j => i \in Pos /\ i \in Nat /\ (j \in Pos \/ j = Len(chan) + 1)
    BY <2>1, Positions
  <2> QED BY <1>3, <2>1, <2>2, <2>3 DEF Order
<1>4. ASSUME NEW k, Receive(k) PROVE Order'
  <2>1. \A i \in Pos' : i \in Nat /\ i + 1 \in Pos /\ chan'[i] = chan[i + 1]
    BY <1>4, ReceiveRemoves
  <2>2. ASSUME NEW i \in Pos', NEW j \in Pos', i < j, chan'[i].dev = chan'[j].dev
        PROVE  chan'[i].kind = "failed" /\ chan'[j].kind = "stopped"
    BY <2>1, <2>2 DEF Order
  <2> QED BY <2>2 DEF Order
<1>5. ASSUME NEW d \in Devices, SendBatch(d) PROVE Order'
  <2>1. PICK h \in BOOLEAN : Send(BatchMsg(d, h))
    BY <1>5 DEF SendBatch
  <2>2. worker[d] = "send" /\ (Closed => UNCHANGED chan)
    BY <1>5, <2>1, SendAppends, MessageTypes DEF SendBatch, Goto
  <2>3. Silent(d)
    BY <2>2 DEF Origin, Silent, Kinds
  <2> QED BY <1>1, <1>3, <2>1, <2>2, <2>3, MessageTypes
<1>6. ASSUME NEW d \in Devices, SendFailed(d) PROVE Order'
  <2>1. Send(FailedMsg(d)) /\ worker[d] = "fail" /\ (Closed => UNCHANGED chan)
    BY <1>6, SendAppends, MessageTypes DEF SendFailed, Goto
  <2>2. Silent(d)
    BY <2>1 DEF Origin, Silent, Kinds
  <2> QED BY <1>1, <1>3, <2>1, <2>2, MessageTypes
<1>7. ASSUME NEW d \in Devices, SendStopped(d) PROVE Order'
  <2>1. Send(StoppedMsg(d)) /\ worker[d] = "stop" /\ (Closed => UNCHANGED chan)
    BY <1>7, SendAppends, MessageTypes DEF SendStopped, Goto
  <2>2. ~Has(d, "batch") /\ ~Has(d, "stopped")
    BY <2>1 DEF Origin
  <2> QED BY <1>1, <1>3, <2>1, <2>2, MessageTypes
<1>8. CASE ReceiveBatch \/ ReceiveFailed \/ ReceiveStopped
  BY <1>4, <1>8 DEF ReceiveBatch, ReceiveFailed, ReceiveStopped
<1>9. CASE HandlePanics
  BY <1>2, <1>9 DEF HandlePanics
<1>10. CASE \E d \in Devices : \/ MakeWorker(d) \/ MakeWorkerFails(d) \/ CheckStop(d)
                               \/ RunBatch(d) \/ RunBatchFails(d) \/ ReceiveAck(d)
                               \/ DropWorker(d)
  BY <1>1, <1>10 DEF MakeWorker, MakeWorkerFails, CheckStop, RunBatch, RunBatchFails,
       ReceiveAck, DropWorker
<1>11. CASE \/ StartIdle \/ SpawnWorkers \/ LoopTop \/ ReceiveNothing \/ HandleBatchOk
            \/ HandleBatchErr \/ Acknowledge \/ HandleStoppedOk \/ HandleStoppedErr
            \/ Return \/ Expire \/ Finished
  BY <1>1, <1>11 DEF StartIdle, SpawnWorkers, LoopTop, ReceiveNothing, HandleBatchOk,
       HandleBatchErr, Acknowledge, HandleStoppedOk, HandleStoppedErr, Return, Expire,
       Finished, vars
<1> QED BY <1>5, <1>6, <1>7, <1>8, <1>9, <1>10, <1>11 DEF Next, WorkerStep, CoordStep

\* The types hold; an acknowledgement finds its channel empty.
LEMMA TypeOKStep == ASSUME IInv, Next PROVE TypeOK'
<1> USE DEF IInv, TypeOK, Count, Desk, Message, NoMessage, Closed, vars, coordVars, workerVars
<1>1. ASSUME NEW d \in Devices, MakeWorker(d) PROVE TypeOK'
  BY <1>1 DEF MakeWorker, Goto
<1>2. ASSUME NEW d \in Devices, MakeWorkerFails(d) PROVE TypeOK'
  BY <1>2 DEF MakeWorkerFails, Goto
<1>3. ASSUME NEW d \in Devices, CheckStop(d) PROVE TypeOK'
  BY <1>3 DEF CheckStop, Goto
<1>4. ASSUME NEW d \in Devices, RunBatch(d) PROVE TypeOK'
  BY <1>4 DEF RunBatch, Goto
<1>5. ASSUME NEW d \in Devices, RunBatchFails(d) PROVE TypeOK'
  BY <1>5 DEF RunBatchFails, Goto
<1>6. ASSUME NEW d \in Devices, SendBatch(d) PROVE TypeOK'
  <2>1. PICK h \in BOOLEAN : Send(BatchMsg(d, h))
    BY <1>6 DEF SendBatch
  <2> QED BY <1>6, <2>1, BatchSent DEF SendBatch, Goto
<1>7. ASSUME NEW d \in Devices, ReceiveAck(d) PROVE TypeOK'
  BY <1>7 DEF ReceiveAck, Goto
<1>8. ASSUME NEW d \in Devices, DropWorker(d) PROVE TypeOK'
  BY <1>8 DEF DropWorker, Goto
<1>9. ASSUME NEW d \in Devices, SendFailed(d) PROVE TypeOK'
  <2>1. Send(FailedMsg(d))
    BY <1>9 DEF SendFailed
  <2> QED BY <1>9, <2>1, FailedSent DEF SendFailed, Goto
<1>10. ASSUME NEW d \in Devices, SendStopped(d) PROVE TypeOK'
  <2>1. Send(StoppedMsg(d))
    BY <1>10 DEF SendStopped
  <2> QED BY <1>10, <2>1, StoppedSent DEF SendStopped, Goto
<1>11. CASE StartIdle
  BY <1>11 DEF StartIdle
<1>12. CASE SpawnWorkers
  BY <1>12 DEF SpawnWorkers
<1>13. CASE LoopTop
  BY <1>13 DEF LoopTop
<1>14. CASE ReceiveNothing
  BY <1>14 DEF ReceiveNothing
<1>15. CASE ReceiveBatch
  <2>1. Receive("batch")
    BY <1>15 DEF ReceiveBatch
  <2> QED BY <1>15, <2>1, ReceiveRemoves, HasReceived DEF ReceiveBatch
<1>16. CASE HandleBatchOk
  BY <1>16 DEF HandleBatchOk
<1>17. CASE HandleBatchErr
  BY <1>17 DEF HandleBatchErr, RecordError
<1>18. CASE Acknowledge
  BY <1>18 DEF Acknowledge
<1>19. CASE ReceiveFailed
  <2>1. Receive("failed")
    BY <1>19 DEF ReceiveFailed
  <2> QED BY <1>19, <2>1, ReceiveRemoves, HasReceived DEF ReceiveFailed, RecordError
<1>20. CASE ReceiveStopped
  <2>1. Receive("stopped")
    BY <1>20 DEF ReceiveStopped
  <2>2. alive' \in 0 .. Cardinality(Devices)
    BY <1>20, <2>1, ReceiveRemoves, CardinalityDevices DEF ReceiveStopped
  <2>3. cur' \in Message /\ chan' \in Seq(Message)
    BY <1>20, <2>1, ReceiveRemoves DEF ReceiveStopped
  <2> QED BY <1>20, <2>2, <2>3 DEF ReceiveStopped
<1>21. CASE HandleStoppedOk
  BY <1>21 DEF HandleStoppedOk
<1>22. CASE HandleStoppedErr
  BY <1>22 DEF HandleStoppedErr, RecordError
<1>23. CASE HandlePanics
  BY <1>23 DEF HandlePanics
<1>24. CASE Return
  BY <1>24 DEF Return
<1>25. CASE Expire
  BY <1>25 DEF Expire
<1>26. CASE Finished
  BY <1>26 DEF Finished
<1> HIDE DEF IInv, TypeOK, Count, Desk, Message, NoMessage
<1> QED BY <1>1, <1>2, <1>3, <1>4, <1>5, <1>6, <1>7, <1>8, <1>9, <1>10, <1>11, <1>12, <1>13,
       <1>14, <1>15, <1>16, <1>17, <1>18, <1>19, <1>20, <1>21, <1>22, <1>23, <1>24, <1>25,
       <1>26 DEF Next, WorkerStep, CoordStep

\* A message and a token say where their thread is.
LEMMA OriginStep == ASSUME IInv, Next PROVE Origin'
<1> USE DEF IInv, Origin, Desk, Ends, TypeOK, Silent, Kinds, Closed, vars, coordVars, workerVars
<1>1. ASSUME NEW d \in Devices, MakeWorker(d) PROVE Origin'
  BY <1>1, HasKept DEF MakeWorker, Goto
<1>2. ASSUME NEW d \in Devices, MakeWorkerFails(d) PROVE Origin'
  BY <1>2, HasKept DEF MakeWorkerFails, Goto
<1>3. ASSUME NEW d \in Devices, CheckStop(d) PROVE Origin'
  BY <1>3, HasKept DEF CheckStop, Goto
<1>4. ASSUME NEW d \in Devices, RunBatch(d) PROVE Origin'
  BY <1>4, HasKept DEF RunBatch, Goto
<1>5. ASSUME NEW d \in Devices, RunBatchFails(d) PROVE Origin'
  BY <1>5, HasKept DEF RunBatchFails, Goto
<1>6. ASSUME NEW d \in Devices, SendBatch(d) PROVE Origin'
  <2>1. PICK h \in BOOLEAN : Send(BatchMsg(d, h))
    BY <1>6 DEF SendBatch
  <2> QED BY <1>6, <2>1, BatchSent DEF SendBatch, Goto
<1>7. ASSUME NEW d \in Devices, ReceiveAck(d) PROVE Origin'
  BY <1>7, HasKept DEF ReceiveAck, Goto
<1>8. ASSUME NEW d \in Devices, DropWorker(d) PROVE Origin'
  BY <1>8, HasKept DEF DropWorker, Goto
<1>9. ASSUME NEW d \in Devices, SendFailed(d) PROVE Origin'
  <2>1. Send(FailedMsg(d))
    BY <1>9 DEF SendFailed
  <2> QED BY <1>9, <2>1, FailedSent DEF SendFailed, Goto
<1>10. ASSUME NEW d \in Devices, SendStopped(d) PROVE Origin'
  <2>1. Send(StoppedMsg(d))
    BY <1>10 DEF SendStopped
  <2> QED BY <1>10, <2>1, StoppedSent DEF SendStopped, Goto
<1>11. CASE StartIdle
  BY <1>11, HasKept DEF StartIdle
<1>12. CASE SpawnWorkers
  BY <1>12, HasKept DEF SpawnWorkers
<1>13. CASE LoopTop
  BY <1>13, HasKept DEF LoopTop
<1>14. CASE ReceiveNothing
  BY <1>14, HasKept DEF ReceiveNothing
<1>15. CASE ReceiveBatch
  <2>1. Receive("batch")
    BY <1>15 DEF ReceiveBatch
  <2> QED BY <1>15, <2>1, ReceiveRemoves, HasReceived DEF ReceiveBatch
<1>16. CASE HandleBatchOk
  BY <1>16, HasKept DEF HandleBatchOk
<1>17. CASE HandleBatchErr
  BY <1>17, HasKept DEF HandleBatchErr, RecordError
<1>18. CASE Acknowledge
  BY <1>18, HasKept DEF Acknowledge
<1>19. CASE ReceiveFailed
  <2>1. Receive("failed")
    BY <1>19 DEF ReceiveFailed
  <2> QED BY <1>19, <2>1, ReceiveRemoves, HasReceived DEF ReceiveFailed, RecordError
<1>20. CASE ReceiveStopped
  <2>1. Receive("stopped")
    BY <1>20 DEF ReceiveStopped
  <2> QED BY <1>20, <2>1, ReceiveRemoves, HasReceived DEF ReceiveStopped
<1>21. CASE HandleStoppedOk
  BY <1>21, HasKept DEF HandleStoppedOk
<1>22. CASE HandleStoppedErr
  BY <1>22, HasKept DEF HandleStoppedErr, RecordError
<1>23. CASE HandlePanics
  BY <1>23, HasNone DEF HandlePanics
<1>24. CASE Return
  BY <1>24, HasKept DEF Return
<1>25. CASE Expire
  BY <1>25, HasKept DEF Expire
<1>26. CASE Finished
  BY <1>26, HasKept DEF Finished
<1> HIDE DEF IInv, Origin, Desk, Ends, TypeOK, Silent, Kinds
<1> QED BY <1>1, <1>2, <1>3, <1>4, <1>5, <1>6, <1>7, <1>8, <1>9, <1>10, <1>11, <1>12, <1>13,
       <1>14, <1>15, <1>16, <1>17, <1>18, <1>19, <1>20, <1>21, <1>22, <1>23, <1>24, <1>25,
       <1>26 DEF Next, WorkerStep, CoordStep

\* The message in hand is the only one of its device.
LEMMA DeskStep == ASSUME IInv, Next PROVE Desk'
<1> USE DEF IInv, Desk, Origin, TypeOK, Silent, Kinds, Message, NoMessage, Closed, vars,
       coordVars, workerVars
<1>1. ASSUME NEW d \in Devices, MakeWorker(d) PROVE Desk'
  BY <1>1, HasKept DEF MakeWorker, Goto
<1>2. ASSUME NEW d \in Devices, MakeWorkerFails(d) PROVE Desk'
  BY <1>2, HasKept DEF MakeWorkerFails, Goto
<1>3. ASSUME NEW d \in Devices, CheckStop(d) PROVE Desk'
  BY <1>3, HasKept DEF CheckStop, Goto
<1>4. ASSUME NEW d \in Devices, RunBatch(d) PROVE Desk'
  BY <1>4, HasKept DEF RunBatch, Goto
<1>5. ASSUME NEW d \in Devices, RunBatchFails(d) PROVE Desk'
  BY <1>5, HasKept DEF RunBatchFails, Goto
<1>6. ASSUME NEW d \in Devices, SendBatch(d) PROVE Desk'
  <2>1. PICK h \in BOOLEAN : Send(BatchMsg(d, h))
    BY <1>6 DEF SendBatch
  <2> QED BY <1>6, <2>1, BatchSent DEF SendBatch, Goto
<1>7. ASSUME NEW d \in Devices, ReceiveAck(d) PROVE Desk'
  BY <1>7, HasKept DEF ReceiveAck, Goto
<1>8. ASSUME NEW d \in Devices, DropWorker(d) PROVE Desk'
  BY <1>8, HasKept DEF DropWorker, Goto
<1>9. ASSUME NEW d \in Devices, SendFailed(d) PROVE Desk'
  <2>1. Send(FailedMsg(d))
    BY <1>9 DEF SendFailed
  <2> QED BY <1>9, <2>1, FailedSent DEF SendFailed, Goto
<1>10. ASSUME NEW d \in Devices, SendStopped(d) PROVE Desk'
  <2>1. Send(StoppedMsg(d))
    BY <1>10 DEF SendStopped
  <2> QED BY <1>10, <2>1, StoppedSent DEF SendStopped, Goto
<1>11. CASE StartIdle
  BY <1>11, HasKept DEF StartIdle
<1>12. CASE SpawnWorkers
  BY <1>12, HasKept DEF SpawnWorkers
<1>13. CASE LoopTop
  BY <1>13, HasKept DEF LoopTop
<1>14. CASE ReceiveNothing
  BY <1>14, HasKept DEF ReceiveNothing
<1>15. CASE ReceiveBatch
  <2>1. Receive("batch")
    BY <1>15 DEF ReceiveBatch
  <2>2. PICK d \in Devices :
          /\ coord = "recv" /\ Head(chan) \in Message /\ Head(chan).dev = d
          /\ Has(d, "batch") /\ \A l : ~Has(d, l)'
    BY <2>1, ReceiveRemoves, HasReceived
  <2>3. cur' \in Message /\ cur'.dev = d /\ (cur'.hit => ~stopped')
    BY <1>15, <2>2 DEF ReceiveBatch
  <2>4. worker'[d] = "ack" /\ acks'[d] = 0 /\ coord' = "handle" /\ Silent(d)'
    BY <1>15, <2>2 DEF ReceiveBatch
  <2> QED BY <2>3, <2>4
<1>16. CASE HandleBatchOk
  BY <1>16, HasKept DEF HandleBatchOk
<1>17. CASE HandleBatchErr
  BY <1>17, HasKept DEF HandleBatchErr, RecordError
<1>18. CASE Acknowledge
  BY <1>18, HasKept DEF Acknowledge
<1>19. CASE ReceiveFailed
  <2>1. Receive("failed")
    BY <1>19 DEF ReceiveFailed
  <2> QED BY <1>19, <2>1, ReceiveRemoves, HasReceived DEF ReceiveFailed, RecordError
<1>20. CASE ReceiveStopped
  <2>1. Receive("stopped")
    BY <1>20 DEF ReceiveStopped
  <2> QED BY <1>20, <2>1, ReceiveRemoves, HasReceived DEF ReceiveStopped
<1>21. CASE HandleStoppedOk
  BY <1>21, HasKept DEF HandleStoppedOk
<1>22. CASE HandleStoppedErr
  BY <1>22, HasKept DEF HandleStoppedErr, RecordError
<1>23. CASE HandlePanics
  BY <1>23, HasNone DEF HandlePanics
<1>24. CASE Return
  BY <1>24, HasKept DEF Return
<1>25. CASE Expire
  BY <1>25, HasKept DEF Expire
<1>26. CASE Finished
  BY <1>26, HasKept DEF Finished
<1> HIDE DEF IInv, Desk, Origin, TypeOK, Silent, Kinds, Message, NoMessage
<1> QED BY <1>1, <1>2, <1>3, <1>4, <1>5, <1>6, <1>7, <1>8, <1>9, <1>10, <1>11, <1>12, <1>13,
       <1>14, <1>15, <1>16, <1>17, <1>18, <1>19, <1>20, <1>21, <1>22, <1>23, <1>24, <1>25,
       <1>26 DEF Next, WorkerStep, CoordStep

\* Nothing runs and nothing waits before and after the loop.
LEMMA EndsStep == ASSUME IInv, Next PROVE Ends'
<1> USE DEF IInv, Ends, Origin, Count, TypeOK, Silent, Kinds, Closed, vars, coordVars,
       workerVars
<1>1. ASSUME NEW d \in Devices, MakeWorker(d) PROVE Ends'
  BY <1>1, HasKept DEF MakeWorker, Goto
<1>2. ASSUME NEW d \in Devices, MakeWorkerFails(d) PROVE Ends'
  BY <1>2, HasKept DEF MakeWorkerFails, Goto
<1>3. ASSUME NEW d \in Devices, CheckStop(d) PROVE Ends'
  BY <1>3, HasKept DEF CheckStop, Goto
<1>4. ASSUME NEW d \in Devices, RunBatch(d) PROVE Ends'
  BY <1>4, HasKept DEF RunBatch, Goto
<1>5. ASSUME NEW d \in Devices, RunBatchFails(d) PROVE Ends'
  BY <1>5, HasKept DEF RunBatchFails, Goto
<1>6. ASSUME NEW d \in Devices, SendBatch(d) PROVE Ends'
  <2>1. PICK h \in BOOLEAN : Send(BatchMsg(d, h))
    BY <1>6 DEF SendBatch
  <2> QED BY <1>6, <2>1, BatchSent DEF SendBatch, Goto
<1>7. ASSUME NEW d \in Devices, ReceiveAck(d) PROVE Ends'
  BY <1>7, HasKept DEF ReceiveAck, Goto
<1>8. ASSUME NEW d \in Devices, DropWorker(d) PROVE Ends'
  BY <1>8, HasKept DEF DropWorker, Goto
<1>9. ASSUME NEW d \in Devices, SendFailed(d) PROVE Ends'
  <2>1. Send(FailedMsg(d))
    BY <1>9 DEF SendFailed
  <2> QED BY <1>9, <2>1, FailedSent DEF SendFailed, Goto
<1>10. ASSUME NEW d \in Devices, SendStopped(d) PROVE Ends'
  <2>1. Send(StoppedMsg(d))
    BY <1>10 DEF SendStopped
  <2> QED BY <1>10, <2>1, StoppedSent DEF SendStopped, Goto
<1>11. CASE StartIdle
  BY <1>11, HasKept DEF StartIdle
<1>12. CASE SpawnWorkers
  BY <1>12, HasKept DEF SpawnWorkers
<1>13. CASE LoopTop
  BY <1>13, HasKept, NoneAlive DEF LoopTop
<1>14. CASE ReceiveNothing
  BY <1>14, HasKept, HasNothing DEF ReceiveNothing
<1>15. CASE ReceiveBatch
  <2>1. Receive("batch")
    BY <1>15 DEF ReceiveBatch
  <2> QED BY <1>15, <2>1, ReceiveRemoves, HasReceived DEF ReceiveBatch
<1>16. CASE HandleBatchOk
  BY <1>16, HasKept DEF HandleBatchOk
<1>17. CASE HandleBatchErr
  BY <1>17, HasKept DEF HandleBatchErr, RecordError
<1>18. CASE Acknowledge
  BY <1>18, HasKept DEF Acknowledge
<1>19. CASE ReceiveFailed
  <2>1. Receive("failed")
    BY <1>19 DEF ReceiveFailed
  <2> QED BY <1>19, <2>1, ReceiveRemoves, HasReceived DEF ReceiveFailed, RecordError
<1>20. CASE ReceiveStopped
  <2>1. Receive("stopped")
    BY <1>20 DEF ReceiveStopped
  <2> QED BY <1>20, <2>1, ReceiveRemoves, HasReceived DEF ReceiveStopped
<1>21. CASE HandleStoppedOk
  BY <1>21, HasKept DEF HandleStoppedOk
<1>22. CASE HandleStoppedErr
  BY <1>22, HasKept DEF HandleStoppedErr, RecordError
<1>23. CASE HandlePanics
  BY <1>23, HasNone DEF HandlePanics
<1>24. CASE Return
  BY <1>24, HasKept DEF Return
<1>25. CASE Expire
  BY <1>25, HasKept DEF Expire
<1>26. CASE Finished
  BY <1>26, HasKept DEF Finished
<1> HIDE DEF IInv, Ends, Origin, Count, TypeOK, Silent, Kinds
<1> QED BY <1>1, <1>2, <1>3, <1>4, <1>5, <1>6, <1>7, <1>8, <1>9, <1>10, <1>11, <1>12, <1>13,
       <1>14, <1>15, <1>16, <1>17, <1>18, <1>19, <1>20, <1>21, <1>22, <1>23, <1>24, <1>25,
       <1>26 DEF Next, WorkerStep, CoordStep

\* What a thread holds, and that its failure is not lost.
LEMMA ThreadStep == ASSUME IInv, Next PROVE Thread'
<1> USE DEF IInv, Thread, Origin, Ends, TypeOK, Closed, vars, coordVars, workerVars
<1>1. ASSUME NEW d \in Devices, MakeWorker(d) PROVE Thread'
  BY <1>1, HasKept DEF MakeWorker, Goto
<1>2. ASSUME NEW d \in Devices, MakeWorkerFails(d) PROVE Thread'
  BY <1>2, HasKept DEF MakeWorkerFails, Goto
<1>3. ASSUME NEW d \in Devices, CheckStop(d) PROVE Thread'
  BY <1>3, HasKept DEF CheckStop, Goto
<1>4. ASSUME NEW d \in Devices, RunBatch(d) PROVE Thread'
  BY <1>4, HasKept DEF RunBatch, Goto
<1>5. ASSUME NEW d \in Devices, RunBatchFails(d) PROVE Thread'
  BY <1>5, HasKept DEF RunBatchFails, Goto
<1>6. ASSUME NEW d \in Devices, SendBatch(d) PROVE Thread'
  <2>1. PICK h \in BOOLEAN : Send(BatchMsg(d, h))
    BY <1>6 DEF SendBatch
  <2> QED BY <1>6, <2>1, BatchSent DEF SendBatch, Goto
<1>7. ASSUME NEW d \in Devices, ReceiveAck(d) PROVE Thread'
  BY <1>7, HasKept DEF ReceiveAck, Goto
<1>8. ASSUME NEW d \in Devices, DropWorker(d) PROVE Thread'
  BY <1>8, HasKept DEF DropWorker, Goto
<1>9. ASSUME NEW d \in Devices, SendFailed(d) PROVE Thread'
  <2>1. Send(FailedMsg(d))
    BY <1>9 DEF SendFailed
  <2> QED BY <1>9, <2>1, FailedSent DEF SendFailed, Goto
<1>10. ASSUME NEW d \in Devices, SendStopped(d) PROVE Thread'
  <2>1. Send(StoppedMsg(d))
    BY <1>10 DEF SendStopped
  <2> QED BY <1>10, <2>1, StoppedSent DEF SendStopped, Goto
<1>11. CASE StartIdle
  BY <1>11, HasKept DEF StartIdle
<1>12. CASE SpawnWorkers
  BY <1>12, HasKept DEF SpawnWorkers
<1>13. CASE LoopTop
  BY <1>13, HasKept DEF LoopTop
<1>14. CASE ReceiveNothing
  BY <1>14, HasKept DEF ReceiveNothing
<1>15. CASE ReceiveBatch
  <2>1. Receive("batch")
    BY <1>15 DEF ReceiveBatch
  <2> QED BY <1>15, <2>1, ReceiveRemoves, HasReceived DEF ReceiveBatch
<1>16. CASE HandleBatchOk
  BY <1>16, HasKept DEF HandleBatchOk
<1>17. CASE HandleBatchErr
  BY <1>17, HasKept DEF HandleBatchErr, RecordError
<1>18. CASE Acknowledge
  BY <1>18, HasKept DEF Acknowledge
<1>19. CASE ReceiveFailed
  <2>1. Receive("failed")
    BY <1>19 DEF ReceiveFailed
  <2> QED BY <1>19, <2>1, ReceiveRemoves, HasReceived DEF ReceiveFailed, RecordError
<1>20. CASE ReceiveStopped
  <2>1. Receive("stopped")
    BY <1>20 DEF ReceiveStopped
  <2> QED BY <1>20, <2>1, ReceiveRemoves, HasReceived DEF ReceiveStopped
<1>21. CASE HandleStoppedOk
  BY <1>21, HasKept DEF HandleStoppedOk
<1>22. CASE HandleStoppedErr
  BY <1>22, HasKept DEF HandleStoppedErr, RecordError
<1>23. CASE HandlePanics
  BY <1>23, HasNone DEF HandlePanics
<1>24. CASE Return
  BY <1>24, HasKept DEF Return
<1>25. CASE Expire
  BY <1>25, HasKept DEF Expire
<1>26. CASE Finished
  BY <1>26, HasKept DEF Finished
<1> HIDE DEF IInv, Thread, Origin, Ends, TypeOK
<1> QED BY <1>1, <1>2, <1>3, <1>4, <1>5, <1>6, <1>7, <1>8, <1>9, <1>10, <1>11, <1>12, <1>13,
       <1>14, <1>15, <1>16, <1>17, <1>18, <1>19, <1>20, <1>21, <1>22, <1>23, <1>24, <1>25,
       <1>26 DEF Next, WorkerStep, CoordStep

\* The search is stopped, and answers, for a reason.
LEMMA ReasonStep == ASSUME IInv, Next PROVE Reason'
<1> USE DEF IInv, Reason, Thread, Desk, Ends, TypeOK, Closed, vars, coordVars, workerVars
<1>1. ASSUME NEW d \in Devices, MakeWorker(d) PROVE Reason'
  BY <1>1 DEF MakeWorker, Goto
<1>2. ASSUME NEW d \in Devices, MakeWorkerFails(d) PROVE Reason'
  BY <1>2 DEF MakeWorkerFails, Goto
<1>3. ASSUME NEW d \in Devices, CheckStop(d) PROVE Reason'
  BY <1>3 DEF CheckStop, Goto
<1>4. ASSUME NEW d \in Devices, RunBatch(d) PROVE Reason'
  BY <1>4 DEF RunBatch, Goto
<1>5. ASSUME NEW d \in Devices, RunBatchFails(d) PROVE Reason'
  BY <1>5 DEF RunBatchFails, Goto
<1>6. ASSUME NEW d \in Devices, SendBatch(d) PROVE Reason'
  <2>1. PICK h \in BOOLEAN : Send(BatchMsg(d, h))
    BY <1>6 DEF SendBatch
  <2> QED BY <1>6, <2>1, BatchSent DEF SendBatch, Goto
<1>7. ASSUME NEW d \in Devices, ReceiveAck(d) PROVE Reason'
  BY <1>7 DEF ReceiveAck, Goto
<1>8. ASSUME NEW d \in Devices, DropWorker(d) PROVE Reason'
  BY <1>8 DEF DropWorker, Goto
<1>9. ASSUME NEW d \in Devices, SendFailed(d) PROVE Reason'
  <2>1. Send(FailedMsg(d))
    BY <1>9 DEF SendFailed
  <2> QED BY <1>9, <2>1, FailedSent DEF SendFailed, Goto
<1>10. ASSUME NEW d \in Devices, SendStopped(d) PROVE Reason'
  <2>1. Send(StoppedMsg(d))
    BY <1>10 DEF SendStopped
  <2> QED BY <1>10, <2>1, StoppedSent DEF SendStopped, Goto
<1>11. CASE StartIdle
  BY <1>11 DEF StartIdle
<1>12. CASE SpawnWorkers
  BY <1>12 DEF SpawnWorkers
<1>13. CASE LoopTop
  BY <1>13 DEF LoopTop
<1>14. CASE ReceiveNothing
  BY <1>14 DEF ReceiveNothing
<1>15. CASE ReceiveBatch
  <2>1. Receive("batch")
    BY <1>15 DEF ReceiveBatch
  <2> QED BY <1>15, <2>1, ReceiveRemoves, HasReceived DEF ReceiveBatch
<1>16. CASE HandleBatchOk
  BY <1>16, TargetAssumption DEF HandleBatchOk
<1>17. CASE HandleBatchErr
  BY <1>17 DEF HandleBatchErr, RecordError
<1>18. CASE Acknowledge
  BY <1>18 DEF Acknowledge
<1>19. CASE ReceiveFailed
  <2>1. Receive("failed")
    BY <1>19 DEF ReceiveFailed
  <2> QED BY <1>19, <2>1, ReceiveRemoves, HasReceived DEF ReceiveFailed, RecordError
<1>20. CASE ReceiveStopped
  <2>1. Receive("stopped")
    BY <1>20 DEF ReceiveStopped
  <2> QED BY <1>20, <2>1, ReceiveRemoves, HasReceived DEF ReceiveStopped
<1>21. CASE HandleStoppedOk
  BY <1>21 DEF HandleStoppedOk
<1>22. CASE HandleStoppedErr
  BY <1>22 DEF HandleStoppedErr, RecordError
<1>23. CASE HandlePanics
  BY <1>23 DEF HandlePanics
<1>24. CASE Return
  <2>1. error = "panic" \/ \A d \in Devices : Silent(d)
    BY <1>24 DEF Return
  <2>2. error = "none" => /\ \A d \in Devices : outcome[d] = "ok"
                          /\ stopped \/ expired
    BY <1>24, <2>1, DevicesAssumption DEF Return, Silent, Kinds
  <2> QED BY <1>24, <2>2 DEF Return
<1>25. CASE Expire
  BY <1>25 DEF Expire
<1>26. CASE Finished
  BY <1>26 DEF Finished
<1> HIDE DEF IInv, Reason, Thread, Desk, Ends, TypeOK
<1> QED BY <1>1, <1>2, <1>3, <1>4, <1>5, <1>6, <1>7, <1>8, <1>9, <1>10, <1>11, <1>12, <1>13,
       <1>14, <1>15, <1>16, <1>17, <1>18, <1>19, <1>20, <1>21, <1>22, <1>23, <1>24, <1>25,
       <1>26 DEF Next, WorkerStep, CoordStep

\* Only the Stopped message of a device takes it off the count.
LEMMA CountStep == ASSUME IInv, Next PROVE Count'
<1> USE DEF IInv
<1>1. alive \in 0 .. Cardinality(Devices) /\ Cardinality(Devices) \in Nat
  BY CardinalityDevices DEF TypeOK
<1>2. ASSUME Present' = Present, UNCHANGED <<alive, error>>, coord' = "recv" => coord = "recv"
      PROVE  Count'
  BY <1>2 DEF Count
<1>3. ASSUME \A e \in Devices : worker'[e] = "exited" <=> worker[e] = "exited", UNCHANGED chan
      PROVE  Present' = Present
  BY <1>3, HasKept DEF Present, Silent
<1>4. ASSUME NEW d \in Devices, WorkerStep(d), UNCHANGED chan, ~SendStopped(d) PROVE Count'
  <2>1. UNCHANGED <<alive, error, coord>>
    BY <1>4 DEF WorkerStep, MakeWorker, MakeWorkerFails, CheckStop, RunBatch, RunBatchFails,
         SendBatch, ReceiveAck, DropWorker, SendFailed, coordVars
  <2>2. \E from, to : Goto(d, from, to) /\ from # "exited" /\ to # "exited"
    BY <1>4 DEF WorkerStep, MakeWorker, MakeWorkerFails, CheckStop, RunBatch, RunBatchFails,
         SendBatch, ReceiveAck, DropWorker, SendFailed
  <2>3. \A e \in Devices : worker'[e] = "exited" <=> worker[e] = "exited"
    BY <2>2 DEF Goto, TypeOK
  <2> QED BY <1>2, <1>3, <1>4, <2>1, <2>3
<1>5. ASSUME NEW d \in Devices, SendBatch(d) PROVE Count'
  <2>1. PICK h \in BOOLEAN : Send(BatchMsg(d, h))
    BY <1>5 DEF SendBatch
  <2>2. \A e, k : Has(e, k)' <=> Has(e, k) \/ (~Closed /\ e = d /\ k = "batch")
    BY <2>1, BatchSent
  <2>3. /\ worker[d] = "send" /\ worker'[d] # "exited"
        /\ \A e \in Devices : e # d => worker'[e] = worker[e]
        /\ UNCHANGED <<alive, error, coord>>
    BY <1>5 DEF SendBatch, Goto, TypeOK, coordVars
  <2>4. Present' = Present
    BY <2>2, <2>3 DEF Present, Silent
  <2> QED BY <1>2, <2>3, <2>4
<1>6. ASSUME NEW d \in Devices, SendFailed(d) PROVE Count'
  <2>1. Send(FailedMsg(d))
    BY <1>6 DEF SendFailed
  <2>2. \A e, k : Has(e, k)' <=> Has(e, k) \/ (~Closed /\ e = d /\ k = "failed")
    BY <2>1, FailedSent
  <2>3. /\ worker[d] = "fail" /\ worker'[d] = "stop"
        /\ \A e \in Devices : e # d => worker'[e] = worker[e]
        /\ UNCHANGED <<alive, error, coord>>
    BY <1>6 DEF SendFailed, Goto, TypeOK, coordVars
  <2>4. Present' = Present
    BY <2>2, <2>3 DEF Present, Silent
  <2> QED BY <1>2, <2>3, <2>4
<1>7. ASSUME NEW d \in Devices, SendStopped(d) PROVE Count'
  <2>1. Send(StoppedMsg(d))
    BY <1>7 DEF SendStopped
  <2>2. \A e, k : Has(e, k)' <=> Has(e, k) \/ (~Closed /\ e = d /\ k = "stopped")
    BY <2>1, StoppedSent
  <2>3. /\ worker[d] = "stop" /\ worker'[d] = "exited"
        /\ \A e \in Devices : e # d => worker'[e] = worker[e]
        /\ UNCHANGED <<alive, error, coord>>
    BY <1>7 DEF SendStopped, Goto, TypeOK, coordVars
  <2>4. CASE ~Closed
    <3>1. Present' = Present
      BY <2>2, <2>3, <2>4 DEF Present, Silent, Kinds
    <3> QED BY <1>2, <2>3, <3>1
  <2>5. CASE Closed
    <3>1. error = "panic"
      BY <2>3, <2>5 DEF Ends
    <3> QED BY <2>3, <2>5, <3>1 DEF Count, Closed
  <2> QED BY <2>4, <2>5
<1>8. CASE ReceiveBatch \/ ReceiveFailed
  <2>1. PICK k \in {"batch", "failed"} : Receive(k)
    BY <1>8 DEF ReceiveBatch, ReceiveFailed
  <2>2. PICK d \in Devices : Has(d, k) /\ \A e, l : Has(e, l)' <=> Has(e, l) /\ ~(e = d /\ l =
         k)
    BY <2>1, HasReceived
  <2>3. UNCHANGED worker /\ (error' # "panic" => error # "panic") /\ alive' = alive
        /\ coord' # "recv"
    BY <1>8 DEF ReceiveBatch, ReceiveFailed, RecordError, workerVars, Receive, Ends, Closed
  <2>4. worker[d] # "exited" \/ (k = "failed" /\ Has(d, "stopped"))
    BY <2>2 DEF Origin
  <2>5. Present' = Present
    BY <2>2, <2>3, <2>4 DEF Present, Silent, Kinds
  <2> QED BY <2>3, <2>5 DEF Count
<1>9. CASE ReceiveStopped
  <2>1. Receive("stopped")
    BY <1>9 DEF ReceiveStopped
  <2>2. PICK d \in Devices : /\ Has(d, "stopped") /\ \A l : ~Has(d, l)'
                             /\ \A e, l : e # d => (Has(e, l)' <=> Has(e, l))
    BY <2>1, HasReceived
  <2>3. /\ UNCHANGED <<worker, error>> /\ alive' = alive - 1 /\ coord' = "handleStopped"
    BY <1>9 DEF ReceiveStopped, workerVars
  <2>4. worker[d] = "exited"
    BY <2>2 DEF Origin
  <2>5. d \in Present /\ Present' = Present \ {d}
    BY <2>2, <2>3, <2>4 DEF Present, Silent, Kinds
  <2>6. IsFiniteSet(Present)
    BY DevicesAssumption, FS_Subset DEF Present
  <2>7. Cardinality(Present \ {d}) = Cardinality(Present) - 1
    BY <2>5, <2>6, FS_RemoveElement
  <2> QED BY <2>3, <2>5, <2>7 DEF Count
<1>10. CASE LoopTop
  <2>1. Present' = Present /\ UNCHANGED <<alive, error>>
    BY <1>10, HasKept DEF LoopTop, workerVars, Present, Silent
  <2>2. coord' = "recv" => alive > 0
    BY <1>10 DEF LoopTop
  <2> QED BY <2>1, <2>2 DEF Count
<1>11. CASE SpawnWorkers
  <2>1. \A e \in Devices : worker'[e] = "make" /\ worker[e] = "idle"
    BY <1>11 DEF SpawnWorkers, Ends
  <2>2. UNCHANGED <<chan, alive, error>> /\ coord' # "recv"
    BY <1>11 DEF SpawnWorkers
  <2> QED BY <1>2, <1>3, <2>1, <2>2
<1>12. CASE HandlePanics
  BY <1>12 DEF HandlePanics, Count
<1>13. CASE \/ StartIdle \/ ReceiveNothing \/ HandleBatchOk \/ Acknowledge \/ HandleStoppedOk
            \/ Return \/ Expire \/ Finished
  <2>1. UNCHANGED <<chan, worker, alive, error>> /\ (coord' = "recv" => coord = "recv")
    BY <1>13 DEF StartIdle, ReceiveNothing, HandleBatchOk, Acknowledge, HandleStoppedOk, Return,
         Expire, Finished, vars, coordVars, workerVars
  <2> QED BY <1>2, <1>3, <2>1
<1>14. CASE HandleBatchErr \/ HandleStoppedErr
  <2>1. UNCHANGED <<chan, worker, alive>> /\ error' = "err" /\ error # "panic" /\ coord' #
         "recv"
    BY <1>14 DEF HandleBatchErr, HandleStoppedErr, RecordError, workerVars, Ends, Closed
  <2> QED BY <1>3, <2>1 DEF Count
<1>15. ASSUME NEW d \in Devices, WorkerStep(d) PROVE Count'
  <2>1. CASE SendBatch(d) \/ SendFailed(d) \/ SendStopped(d)
    BY <1>5, <1>6, <1>7, <2>1
  <2>2. CASE \/ MakeWorker(d) \/ MakeWorkerFails(d) \/ CheckStop(d) \/ RunBatch(d)
             \/ RunBatchFails(d) \/ ReceiveAck(d) \/ DropWorker(d)
    <3>1. UNCHANGED chan
      BY <2>2 DEF MakeWorker, MakeWorkerFails, CheckStop, RunBatch, RunBatchFails, ReceiveAck,
           DropWorker
    <3> QED BY <1>4, <1>7, <1>15, <3>1
  <2> QED BY <1>15, <2>1, <2>2 DEF WorkerStep
<1> QED BY <1>8, <1>9, <1>10, <1>11, <1>12, <1>13, <1>14, <1>15 DEF Next, CoordStep

\* The initial states satisfy the inductive invariant.
LEMMA InitIInv == Init => IInv
<1> SUFFICES ASSUME Init PROVE IInv
  OBVIOUS
<1>1. \A d, k : ~Has(d, k)
  BY HasNothing DEF Init
<1>2. TypeOK
  <2>1. alive \in 0 .. Cardinality(Devices)
    BY CardinalityDevices DEF Init
  <2>2. chan \in Seq(Message) /\ cur \in Message \cup {NoMessage}
    BY DEF Init
  <2> QED BY <2>1, <2>2 DEF Init, TypeOK
<1>3. Order
  BY DEF Init, Order, Pos
<1>4. Origin /\ Desk /\ Thread
  BY <1>1 DEF Init, Origin, Desk, Thread, Silent
<1>5. Count
  <2>1. Present = Devices
    BY DEF Init, Present
  <2> QED BY <2>1 DEF Init, Count
<1>6. Ends
  BY <1>1 DEF Init, Ends, Closed, Silent
<1>7. Reason
  BY TargetAssumption DEF Init, Reason
<1> QED BY <1>2, <1>3, <1>4, <1>5, <1>6, <1>7 DEF IInv

LEMMA StutterIInv == ASSUME IInv, UNCHANGED vars PROVE IInv'
BY HasKept DEF IInv, vars, coordVars, workerVars, TypeOK, Order, Origin, Desk, Count, Ends,
   Thread, Reason, Present, Silent, Pos, Has, Closed

LEMMA IInvStep == ASSUME IInv, [Next]_vars PROVE IInv'
BY TypeOKStep, OrderStep, OriginStep, DeskStep, CountStep, EndsStep, ThreadStep, ReasonStep,
   StutterIInv DEF IInv

\* The inductive invariant holds in every reachable state.
THEOREM Invariance == Spec => []IInv
<1>1. IInv /\ [Next]_vars => IInv'
  BY IInvStep
<1> QED BY InitIInv, <1>1, PTL DEF Spec

-----------------------------------------------------------------------------
(* The properties of GpuScheduler. *)

\* Every variable has its type, whatever the number of devices and hits.
THEOREM TypeCorrect == Spec => []TypeOK
<1>1. IInv => TypeOK
  BY DEF IInv
<1> QED BY Invariance, <1>1, PTL

\* Each device has at most one batch that the coordinator has not answered:
\* two would be two messages of kind "batch" in a row, which Order excludes, or
\* one in the channel while the thread or the coordinator has another.
THEOREM UnconsumedBound == Spec => []OneUnconsumed
<1>1. IInv => OneUnconsumed
  <2> SUFFICES ASSUME IInv, NEW d \in Devices, NEW p \in Unconsumed(d), NEW q \in Unconsumed(d)
               PROVE  p = q
    BY DEF OneUnconsumed
  <2> DEFINE Waiting == {j \in 1 .. Len(chan) : chan[j].kind = "batch" /\ chan[j].dev = d}
  <2>1. ASSUME NEW i \in Waiting, NEW j \in Waiting PROVE i = j
    BY <2>1, Positions DEF IInv, Order, Pos
  <2>2. Waiting # {} => Has(d, "batch") /\ worker[d] = "ack" /\ ~Silent(d)
    BY DEF Has, Pos, IInv, Origin, Silent, Kinds
  <2>3. coord \in {"handle", "ack"} /\ cur.dev = d => worker[d] = "ack" /\ Waiting = {}
    BY <2>2 DEF IInv, Desk
  <2> QED BY <2>1, <2>2, <2>3 DEF Unconsumed
<1> QED BY Invariance, <1>1, PTL

\* No more hits are accepted than were asked for.
THEOREM HitsBound == Spec => []HitsBounded
<1>1. IInv => HitsBounded
  BY DEF IInv, Reason, HitsBounded
<1> QED BY Invariance, <1>1, PTL

\* Ok means the hits are there or the time is up, and nothing failed.
THEOREM Earned == Spec => []OkIsEarned
<1>1. IInv => OkIsEarned
  BY DEF IInv, Reason, OkIsEarned
<1> QED BY Invariance, <1>1, PTL

\* The loop ends because its count is 0, and then it has heard of every thread.
THEOREM NothingLeft == Spec => []NothingLeftBehind
<1>1. IInv => NothingLeftBehind
  <2> SUFFICES ASSUME IInv, coord \in {"join", "returned"}, error # "panic",
                      NEW d \in Devices, worker[d] # "idle"
               PROVE  /\ alive = 0 /\ chan = <<>>
                      /\ \A e \in Devices : worker[e] = "exited"
    BY DEF NothingLeftBehind
  <2>1. \A e \in Devices : worker[e] = "exited" /\ Silent(e)
    BY DEF IInv, Ends, Closed
  <2>2. Present = {}
    BY <2>1 DEF Present
  <2>3. alive = 0
    BY <2>2, FS_EmptySet DEF IInv, Count
  <2>4. Pos = {}
    BY <2>1, Positions DEF IInv, Silent, Has
  <2>5. chan = <<>>
    <3>1. chan \in Seq(Message) /\ Len(chan) \in Nat
      BY DEF IInv, TypeOK
    <3>2. Len(chan) > 0 => 1 \in Pos
      BY <3>1 DEF Pos
    <3> QED BY <2>4, <3>1, <3>2
  <2> QED BY <2>1, <2>3, <2>5
<1> QED BY Invariance, <1>1, PTL

\* A device that is reported gone owns nothing any more, and neither does any
\* device when run returns.
THEOREM Released == Spec => []ReleasedWhenReported
<1>1. IInv => ReleasedWhenReported
  <2> SUFFICES ASSUME IInv PROVE ReleasedWhenReported
    OBVIOUS
  <2>1. ASSUME NEW i \in 1 .. Len(chan), chan[i].kind # "batch" PROVE ~held[chan[i].dev]
    <3>1. chan[i].dev \in Devices /\ Has(chan[i].dev, chan[i].kind) /\ chan[i].kind \in Kinds
      BY Positions DEF IInv, Pos, Has
    <3> QED BY <2>1, <3>1 DEF IInv, Origin, Thread, Kinds
  <2>2. coord = "handleStopped" => ~held[cur.dev]
    BY DEF IInv, Desk, Thread
  <2>3. result # "none" => \A d \in Devices : ~held[d]
    BY DEF IInv, Reason, Ends, Thread
  <2> QED BY <2>1, <2>2, <2>3 DEF ReleasedWhenReported
<1> QED BY Invariance, <1>1, PTL

\* A thread with something to send leaves one of the 2 * devices slots unused:
\* a position in the channel is determined by its device and by whether it is
\* a Stopped message, and no Stopped message of that thread waits.
THEOREM NeverWaits == Spec => []SendNeverWaits
<1>1. IInv => SendNeverWaits
  <2> SUFFICES ASSUME IInv, NEW d \in Devices, worker[d] \in {"send", "fail", "stop"}
               PROVE  Len(chan) < Capacity
    BY DEF SendNeverWaits
  <2> DEFINE Slots == Devices \X (0 .. 1)
             Free  == Slots \ {<<d, 1>>}
             slot  == [i \in Pos |-> <<chan[i].dev, IF chan[i].kind = "stopped" THEN 1 ELSE 0>>]
  <2>1. ~Has(d, "stopped")
    BY DEF IInv, Origin
  <2>2. slot \in [Pos -> Free]
    <3> SUFFICES ASSUME NEW i \in Pos PROVE slot[i] \in Free
      OBVIOUS
    <3>1. chan[i].dev \in Devices
      BY Positions DEF IInv
    <3>2. chan[i].dev = d => chan[i].kind # "stopped"
      BY <2>1 DEF Has
    <3> QED BY <3>1, <3>2
  <2>3. ASSUME NEW i \in Pos, NEW j \in Pos, slot[i] = slot[j] PROVE i = j
    <3>1. chan[i].dev = chan[j].dev /\ (chan[i].kind = "stopped" <=> chan[j].kind = "stopped")
      BY <2>3
    <3>2. ~(i < j) /\ ~(j < i)
      BY <3>1 DEF IInv, Order
    <3> QED BY <3>2, Positions DEF IInv
  <2>4. slot \in Injection(Pos, Free)
    BY <2>2, <2>3 DEF Injection, IsInjective
  <2>5. /\ IsFiniteSet(Slots) /\ Cardinality(Slots) = 2 * Cardinality(Devices)
    <3> DEFINE Bits == 0 .. 1
    <3>1. IsFiniteSet(Bits) /\ Cardinality(Bits) = IF 0 > 1 THEN 0 ELSE 1 - 0 + 1
      BY FS_Interval, 0 \in Int, 1 \in Int, Zenon
    <3>2. Slots = Devices \X Bits
      OBVIOUS
    <3> HIDE DEF Bits, Slots
    <3>3. Cardinality(Bits) = 2
      BY <3>1
    <3>4. /\ IsFiniteSet(Devices \X Bits)
          /\ Cardinality(Devices \X Bits) = Cardinality(Devices) * Cardinality(Bits)
      BY <3>1, DevicesAssumption, FS_Product, Zenon
    <3> QED BY <3>2, <3>3, <3>4, CardinalityDevices
  <2>6. IsFiniteSet(Free) /\ Cardinality(Free) = 2 * Cardinality(Devices) - 1
    <3>1. <<d, 1>> \in Slots
      OBVIOUS
    <3> HIDE DEF Slots
    <3>2. IsFiniteSet(Free) /\ Cardinality(Free) = Cardinality(Slots) - 1
      BY <2>5, <3>1, FS_RemoveElement, Zenon
    <3> QED BY <2>5, <3>2
  <2>7. Cardinality(Pos) <= Cardinality(Free)
    BY <2>4, <2>6, FS_Injection
  <2>8. Cardinality(Pos) = Len(chan)
    <3>1. Len(chan) \in Nat
      BY DEF IInv, TypeOK
    <3> QED BY <3>1, FS_Interval DEF Pos
  <2> QED BY <2>6, <2>7, <2>8, CardinalityDevices DEF Capacity
<1> QED BY Invariance, <1>1, PTL

\* A hit is accepted only before the search is stopped.
THEOREM LateHitDropped == Spec => NoLateHit
<1>1. IInv /\ [Next]_vars => [stopped \/ (expired /\ coord # "handle") => found' = found]_vars
  <2> SUFFICES ASSUME IInv, Next, stopped \/ (expired /\ coord # "handle")
               PROVE  found' = found
    BY DEF vars, coordVars
  <2>1. CASE HandleBatchOk
    BY <2>1 DEF HandleBatchOk, IInv, Desk
  <2>2. CASE \E d \in Devices : WorkerStep(d)
    BY <2>2 DEF WorkerStep, MakeWorker, MakeWorkerFails, CheckStop, RunBatch, RunBatchFails,
         SendBatch, ReceiveAck, DropWorker, SendFailed, SendStopped, coordVars
  <2>3. CASE CoordStep /\ ~HandleBatchOk
    BY <2>3 DEF CoordStep, StartIdle, SpawnWorkers, LoopTop, ReceiveNothing, ReceiveBatch,
         HandleBatchErr, Acknowledge, ReceiveFailed, ReceiveStopped, HandleStoppedOk,
         HandleStoppedErr, HandlePanics, Return
  <2>4. CASE Expire \/ Finished
    BY <2>4 DEF Expire, Finished, vars, coordVars
  <2> QED BY <2>1, <2>2, <2>3, <2>4 DEF Next
<1> QED BY Invariance, <1>1, PTL DEF Spec, NoLateHit
-----------------------------------------------------------------------------
(* GpuScheduler implements SearchContract. *)

Broken == error # "none" \/ (\E d \in Devices : outcome[d] = "err")
Busy   == {d \in Devices : held[d]}

LEMMA ContractVars ==
  ASSUME UNCHANGED <<found, stopped, expired, result>>, Broken' = Broken, Busy' = Busy
  PROVE  UNCHANGED Contract!vars
BY DEF Contract!vars, Broken, Busy

LEMMA ContractInit == Init => Contract!Init
BY DEF Init, Contract!Init

\* Each step is one step of the contract or none.
LEMMA ContractStep == ASSUME IInv, [Next]_vars PROVE [Contract!Next]_(Contract!vars)
<1> USE DEF IInv
<1>1. CASE UNCHANGED vars
  BY <1>1 DEF vars, coordVars, workerVars, Contract!vars
<1>2. ASSUME NEW d \in Devices, MakeWorker(d) PROVE Contract!Acquire(d)
  BY <1>2 DEF MakeWorker, Goto, coordVars, TypeOK, Thread, Reason, Ends, Closed,
       Contract!Acquire, Contract!Open
<1>3. ASSUME NEW d \in Devices, DropWorker(d) PROVE Contract!Release(d)
  BY <1>3 DEF DropWorker, Goto, coordVars, TypeOK, Thread, Reason, Ends, Closed,
       Contract!Release, Contract!Open
<1>4. ASSUME NEW d \in Devices, MakeWorkerFails(d) \/ RunBatchFails(d)
      PROVE  Contract!Fail \/ UNCHANGED Contract!vars
  <2>1. /\ UNCHANGED <<found, stopped, expired, result, error, held>> /\ outcome'[d] = "err"
        /\ worker[d] \in {"make", "batch"}
        /\ \A e \in Devices : e # d => outcome'[e] = outcome[e]
    BY <1>4 DEF MakeWorkerFails, RunBatchFails, Goto, coordVars, TypeOK
  <2>2. result = "none"
    BY <2>1 DEF Reason, Ends
  <2>3. CASE Broken
    BY <2>1, <2>3, ContractVars DEF Broken, Busy
  <2>4. CASE ~Broken
    BY <2>1, <2>2, <2>4 DEF Broken, TypeOK, Contract!Fail, Contract!Open
  <2> QED BY <2>3, <2>4
<1>5. ASSUME NEW d \in Devices, 
             \/ CheckStop(d) \/ RunBatch(d) \/ SendBatch(d) \/ ReceiveAck(d) \/ SendFailed(d)
             \/ SendStopped(d)
      PROVE  UNCHANGED Contract!vars
  BY <1>5, ContractVars DEF CheckStop, RunBatch, SendBatch, ReceiveAck, SendFailed, SendStopped,
       coordVars, Broken, Busy
<1>6. CASE SpawnWorkers \/ ReceiveNothing \/ Acknowledge \/ ReceiveStopped \/ HandleStoppedOk
  BY <1>6, ContractVars DEF SpawnWorkers, ReceiveNothing, Acknowledge, ReceiveStopped,
       HandleStoppedOk, workerVars, Broken, Busy
<1>7. ASSUME UNCHANGED <<found, result, error, expired, held, outcome>>, expired, result =
       "none",
             stopped' \in {stopped, TRUE}
      PROVE  Contract!Halt \/ UNCHANGED Contract!vars
  BY <1>7, ContractVars DEF TypeOK, Broken, Busy, Contract!Halt, Contract!Open
<1>8. CASE LoopTop \/ ReceiveBatch
  <2>1. UNCHANGED <<found, result, error, expired, held, outcome>> /\ result = "none"
    BY <1>8 DEF LoopTop, ReceiveBatch, Receive, workerVars, Reason
  <2>2. CASE expired
    BY <1>7, <1>8, <2>1, <2>2 DEF LoopTop, ReceiveBatch, TypeOK, Contract!Next
  <2>3. CASE ~expired
    BY <1>8, <2>1, <2>3, ContractVars DEF LoopTop, ReceiveBatch, TypeOK, Broken, Busy
  <2> QED BY <2>2, <2>3
<1>9. CASE HandleBatchOk
  <2>1. UNCHANGED <<result, error, expired, held, outcome>> /\ result = "none"
    BY <1>9 DEF HandleBatchOk, workerVars, Reason
  <2>2. CASE cur.hit
    <3>1. ~stopped /\ found < Target /\ found \in Nat
      BY <1>9, <2>2 DEF HandleBatchOk, Desk, Reason, TypeOK
    <3>2. cur.hit = TRUE
      BY <1>9, <2>2 DEF HandleBatchOk, Desk, Message
    <3>3. found' = found + 1 /\ stopped' = (found' = Target)
      BY <1>9, <3>1, <3>2 DEF HandleBatchOk
    <3> QED BY <2>1, <3>1, <3>3 DEF Contract!Accept, Contract!Open, Contract!Next
  <2>3. CASE ~cur.hit
    BY <1>9, <2>1, <2>3, ContractVars DEF HandleBatchOk, TypeOK, Broken, Busy
  <2> QED BY <2>2, <2>3
<1>10. ASSUME UNCHANGED <<found, result, expired, held, outcome>>, result = "none",
              error' # "none", stopped' \in {stopped, TRUE}
       PROVE  Contract!Fail \/ Contract!Halt \/ UNCHANGED Contract!vars
  <2>1. CASE ~Broken
    BY <1>10, <2>1 DEF Broken, Contract!Fail, Contract!Open
  <2>2. CASE Broken /\ ~stopped /\ stopped'
    BY <1>10, <2>2 DEF Broken, Contract!Halt, Contract!Open
  <2>3. CASE Broken /\ stopped' = stopped
    BY <1>10, <2>3, ContractVars DEF Broken, Busy
  <2> QED BY <1>10, <2>1, <2>2, <2>3 DEF TypeOK
<1>11. CASE HandleBatchErr \/ ReceiveFailed \/ HandleStoppedErr \/ HandlePanics
  BY <1>10, <1>11 DEF HandleBatchErr, ReceiveFailed, HandleStoppedErr, HandlePanics,
         RecordError,
       Receive, workerVars, Reason, Contract!Next
<1>12. CASE StartIdle
  <2>1. (found = Target \/ expired) /\ error = "none" /\ result = "none"
        /\ \A d \in Devices : ~held[d] /\ outcome[d] = "ok"
    BY <1>12 DEF StartIdle, Ends, Thread, TypeOK, Reason
  <2>2. Contract!AnswerOk
    BY <1>12, <2>1 DEF StartIdle, workerVars, Contract!AnswerOk, Contract!Open
  <2> QED BY <2>2 DEF Contract!Next
<1>13. CASE Return
  <2>1. result = "none" /\ \A d \in Devices : ~held[d]
    BY <1>13 DEF Return, Thread, Reason
  <2>2. CASE error = "none"
    <3>1. Contract!Open /\ result' = "ok"
      BY <1>13, <2>1, <2>2 DEF Return, Contract!Open
    <3>2. (found = Target \/ expired) /\ \A d \in Devices : outcome[d] = "ok"
      <4>1. Reason'
        BY <1>13, ReasonStep DEF Next, CoordStep
      <4> QED BY <1>13, <3>1, <4>1 DEF Return, Reason, workerVars
    <3>3. Contract!AnswerOk
      BY <1>13, <2>1, <2>2, <3>1, <3>2 DEF Return, workerVars, Contract!AnswerOk
    <3> QED BY <3>3 DEF Contract!Next
  <2>3. CASE error # "none"
    <3>1. Contract!AnswerError
      BY <1>13, <2>1, <2>3 DEF Return, workerVars, TypeOK, Contract!AnswerError, Contract!Open
    <3> QED BY <3>1 DEF Contract!Next
  <2> QED BY <2>2, <2>3
<1>14. CASE Expire
  BY <1>14 DEF Expire, coordVars, workerVars, Contract!Expire, Contract!Next
<1>15. CASE Finished
  BY <1>1, <1>15 DEF Finished
<1> HIDE DEF IInv
<1> QED BY <1>1, <1>2, <1>3, <1>4, <1>5, <1>6, <1>8, <1>9, <1>10, <1>11, <1>12, <1>13, <1>14,
       <1>15
        DEF Next, WorkerStep, CoordStep, Contract!Next

\* Whatever the interleaving, the caller sees what the contract allows.
THEOREM Implements == Spec => Refines
<1>1. IInv /\ [Next]_vars => [Contract!Next]_(Contract!vars)
  BY ContractStep
<1> QED BY ContractInit, <1>1, Invariance, PTL DEF Spec, Refines, Contract!Spec
=============================================================================
