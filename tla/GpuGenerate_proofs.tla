------------------------- MODULE GpuGenerate_proofs -------------------------
(***************************************************************************)
(* Proofs about GpuGenerate, for any finite set of devices, any target and *)
(* with or without --save.                                                 *)
(*                                                                         *)
(* The handler is called by the scheduler, so the scheduler's inductive    *)
(* invariant holds here too.  GenInv adds where the handler may be         *)
(* (Handler), which sequence numbers have files (Saved), which batches     *)
(* progress has not counted (Counted) and whose rate it shows (Rates).     *)
(***************************************************************************)
EXTENDS GpuGenerate, GpuScheduler_proofs

HandlerTypes ==
  /\ step \in {"record", "verify", "save", "accept", "print"}
  /\ uncounted \in Int /\ hit \in Nat /\ rate \in [Devices -> BOOLEAN]
  /\ accepted \in Nat /\ shown \in Nat /\ printed \in Seq(Nat)

\* The handler is past recording only with a hit in hand, or where it panicked.
Handler ==
  /\ step # "record" => (coord = "handle" /\ cur.hit) \/ error = "panic"
  /\ step = "save" => Saving
  /\ shown = accepted
  /\ error # "panic" => accepted = IF step = "print" THEN found + 1 ELSE found
  /\ accepted = IF step = "print" THEN Len(printed) + 1 ELSE Len(printed)

\* The accepted hits have the first numbers; the next number is taken between
\* the save and the acceptance, or after a save that failed half way.
Saved ==
  /\ \A n \in DOMAIN files : n \in 1 .. accepted + 1
  /\ accepted + 1 \in DOMAIN files => step = "accept" \/ error # "none"
  /\ Saving =>
       /\ \A n \in 1 .. Len(printed) : n \in DOMAIN files /\ files[n] = printed[n]
       /\ step = "accept" => accepted + 1 \in DOMAIN files /\ files[accepted + 1] = hit
       /\ step = "print" => accepted \in DOMAIN files /\ files[accepted] = hit

\* The devices whose last batch progress has not counted.
Unseen ==
  {d \in Devices : \/ worker[d] = "send" \/ Has(d, "batch")
                   \/ coord = "handle" /\ step = "record" /\ cur.dev = d}

Counted ==
  /\ error # "panic" => uncounted = Cardinality(Unseen)
  /\ result = "err" => error = "err"

\* A device that shows a rate runs, or its leaving is still to be heard of.
Rates ==
  error # "panic" =>
    \A d \in Devices :
      rate[d] => \/ worker[d] # "exited" \/ ~Silent(d)
                 \/ coord = "handleStopped" /\ cur.dev = d

GenInv == IInv /\ HandlerTypes /\ Handler /\ Saved /\ Counted /\ Rates

-----------------------------------------------------------------------------
(* The scheduler with this handler is the scheduler. *)

\* Every step of gpu::generate is one of the scheduler's or leaves it alone.
LEMMA GenIsStep == ASSUME [GenNext]_genVars PROVE [Next]_vars
BY DEF GenNext, CoordinatorStep, DeviceStep, LoopStep, RecordBatch, VerifyOk, VerifyFails, SaveOk,
   SaveFails, Accept, PrintResult, DeviceStopped, HandlerPanics, Next, CoordStep, genVars

\* The handler is an instance of the one the scheduler is specified with, so that
\* everything proved of the scheduler holds of gpu::generate.
THEOREM SchedulerImplemented == GenSpec => Scheduler
<1>1. GenInit => Init
  BY DEF GenInit
<1>2. [GenNext]_genVars => [Next]_vars
  BY GenIsStep
<1> QED BY <1>1, <1>2, PTL DEF GenSpec, Spec, Scheduler

\* What holds of coord and error where the handler runs.
LEMMA InHand ==
  ASSUME IInv, coord = "handle"
  PROVE  /\ cur \in Message /\ cur.dev \in Devices /\ worker[cur.dev] = "ack"
         /\ error # "panic" /\ (cur.hit => ~stopped /\ error = "none")
BY DEF IInv, Desk, Ends, Closed, Reason, TypeOK, Message

-----------------------------------------------------------------------------
(* Every step keeps the rest of the inductive invariant. *)

LEMMA HandlerTypesStep == ASSUME GenInv, [GenNext]_genVars PROVE HandlerTypes'
<1> USE DEF GenInv, HandlerTypes
<1>1. ASSUME NEW d \in Devices, DeviceStep(d) PROVE HandlerTypes'
  BY <1>1 DEF DeviceStep, handlerVars
<1>2. CASE LoopStep
  BY <1>2 DEF LoopStep, handlerVars
<1>3. CASE RecordBatch
  <2>1. uncounted' = uncounted - 1 /\ UNCHANGED <<accepted, shown, printed>>
    BY <1>3 DEF RecordBatch
  <2>3. rate' = [rate EXCEPT ![cur.dev] = TRUE]
    BY <1>3 DEF RecordBatch
  <2>2. step' \in {"record", "verify"} /\ hit' \in Nat
    BY <1>3 DEF RecordBatch, InHandler
  <2>4. rate' \in [Devices -> BOOLEAN]
    <3>1. cur.dev \in Devices
      BY <1>3, InHand DEF RecordBatch, InHandler
    <3>2. rate \in [Devices -> BOOLEAN]
      OBVIOUS
    <3> HIDE DEF GenInv, HandlerTypes
    <3> QED BY <2>3, <3>1, <3>2
  <2> QED BY <2>1, <2>2, <2>4
<1>4. CASE VerifyOk \/ VerifyFails \/ SaveOk \/ SaveFails \/ Accept
  BY <1>4 DEF VerifyOk, VerifyFails, SaveOk, SaveFails, Accept, InHandler
<1>5. CASE PrintResult
  BY <1>5 DEF PrintResult
<1>6. CASE DeviceStopped
  BY <1>6 DEF DeviceStopped
<1>7. CASE HandlerPanics
  BY <1>7 DEF HandlerPanics, handlerVars
<1>8. CASE (Expire \/ Finished) /\ UNCHANGED <<uncounted, handlerVars>>
  BY <1>8 DEF handlerVars
<1>9. CASE UNCHANGED genVars
  BY <1>9 DEF genVars, handlerVars
<1> QED BY <1>1, <1>2, <1>3, <1>4, <1>5, <1>6, <1>7, <1>8, <1>9 DEF GenNext, CoordinatorStep

\* A step outside the handler changes nothing the handler's place depends on.
LEMMA OutsideHandler ==
  ASSUME GenInv, UNCHANGED <<handlerVars, found>>,
         coord # "handle" \/ UNCHANGED <<coord, cur>>,
         error' # "panic" => error # "panic",
         error = "panic" => error' = "panic"
  PROVE  Handler'
BY DEF GenInv, Handler, handlerVars

LEMMA HandlerStep == ASSUME GenInv, [GenNext]_genVars PROVE Handler'
<1>1. ASSUME NEW d \in Devices, DeviceStep(d) PROVE Handler'
  BY <1>1, OutsideHandler DEF DeviceStep, WorkerStep, MakeWorker, MakeWorkerFails, CheckStop,
     RunBatch, RunBatchFails, SendBatch, ReceiveAck, DropWorker, SendFailed, SendStopped, coordVars
<1>2. CASE LoopStep
  <2>1. UNCHANGED <<handlerVars, found>> /\ coord # "handle"
    BY <1>2 DEF LoopStep, StartIdle, SpawnWorkers, LoopTop, ReceiveNothing, ReceiveBatch,
       Acknowledge, ReceiveFailed, ReceiveStopped, Return, Receive
  <2>2. (error' # "panic" => error # "panic") /\ (error = "panic" => error' = "panic")
    BY <1>2 DEF LoopStep, StartIdle, SpawnWorkers, LoopTop, ReceiveNothing, ReceiveBatch,
       Acknowledge, ReceiveFailed, RecordError, ReceiveStopped, Return, Receive, GenInv, IInv,
       Ends, Closed
  <2> QED BY <2>1, <2>2, OutsideHandler
<1>3. CASE RecordBatch
  <2>1. CASE cur.hit
    BY <1>3, <2>1, InHand DEF RecordBatch, InHandler, GenInv, Handler, vars, coordVars
  <2>2. CASE ~cur.hit
    BY <1>3, <2>2 DEF RecordBatch, InHandler, HandleBatchOk, GenInv, Handler
  <2> QED BY <2>1, <2>2
<1>4. CASE VerifyOk
  BY <1>4 DEF VerifyOk, InHandler, GenInv, Handler, vars, coordVars
<1>5. CASE VerifyFails
  BY <1>5, InHand DEF VerifyFails, InHandler, HandleBatchErr, RecordError, GenInv, Handler
<1>6. CASE SaveOk
  BY <1>6 DEF SaveOk, InHandler, GenInv, Handler, vars, coordVars
<1>7. CASE SaveFails
  BY <1>7, InHand DEF SaveFails, InHandler, HandleBatchErr, RecordError, GenInv, Handler
<1>8. CASE Accept
  BY <1>8, InHand DEF Accept, InHandler, GenInv, HandlerTypes, Handler, vars, coordVars
<1>9. CASE PrintResult
  <2>1. cur.hit /\ error # "panic"
    BY <1>9, InHand DEF PrintResult, InHandler, GenInv, Handler
  <2>2. Len(printed') = Len(printed) + 1
    BY <1>9 DEF PrintResult, GenInv, HandlerTypes
  <2> QED BY <1>9, <2>1, <2>2 DEF PrintResult, InHandler, HandleBatchOk, GenInv, Handler
<1>10. CASE DeviceStopped
  BY <1>10 DEF DeviceStopped, HandleStoppedOk, GenInv, Handler
<1>11. CASE HandlerPanics
  BY <1>11 DEF HandlerPanics, HandlePanics, handlerVars, GenInv, Handler
<1>12. CASE (Expire \/ Finished) /\ UNCHANGED <<uncounted, handlerVars>>
  BY <1>12, OutsideHandler DEF Expire, Finished, vars, coordVars
<1>13. CASE UNCHANGED genVars
  BY <1>13, OutsideHandler DEF genVars, vars, coordVars
<1> QED BY <1>1, <1>2, <1>3, <1>4, <1>5, <1>6, <1>7, <1>8, <1>9, <1>10, <1>11, <1>12, <1>13
       DEF GenNext, CoordinatorStep

\* A step that neither saves nor accepts keeps the files; an error that has
\* happened is not forgotten.
LEMMA FilesKept ==
  ASSUME GenInv, UNCHANGED <<files, hit, accepted, printed>>, error # "none" => error' # "none",
         step' \in {"accept", "print"} => step = step',
         step = "accept" => step' = "accept" \/ error' # "none"
  PROVE  Saved'
BY DEF GenInv, Saved

LEMMA ErrorKept == ASSUME [Next]_vars, error # "none" PROVE error' # "none"
BY DEF Next, CoordStep, WorkerStep, StartIdle, SpawnWorkers, LoopTop, ReceiveNothing, ReceiveBatch,
   HandleBatchOk, HandleBatchErr, Acknowledge, ReceiveFailed, ReceiveStopped, HandleStoppedOk,
   HandleStoppedErr, HandlePanics, Return, RecordError, MakeWorker, MakeWorkerFails, CheckStop,
   RunBatch, RunBatchFails, SendBatch, ReceiveAck, DropWorker, SendFailed, SendStopped, Expire,
   Finished, vars, coordVars

\* The number a save uses is free: had an earlier save failed half way, the
\* search would be stopped and no hit in hand.
LEMMA NumberFree == ASSUME GenInv, InHandler("save") PROVE accepted + 1 \notin DOMAIN files
<1>1. cur.hit
  BY InHand DEF GenInv, InHandler, Handler
<1>2. error = "none"
  BY <1>1, InHand DEF GenInv, InHandler
<1> QED BY <1>2 DEF GenInv, InHandler, Saved

\* What Written does to the files.
LEMMA WrittenAdds ==
  ASSUME NEW n
  PROVE  /\ DOMAIN Written(n) = DOMAIN files \cup {n} /\ Written(n)[n] = hit
         /\ \A m \in DOMAIN files : m # n => Written(n)[m] = files[m]
BY DEF Written

LEMMA SavedStep == ASSUME GenInv, [GenNext]_genVars PROVE Saved'
<1>0. error # "none" => error' # "none"
  BY GenIsStep, ErrorKept
<1>1. CASE \/ \E d \in Devices : DeviceStep(d)
           \/ LoopStep \/ HandlerPanics \/ UNCHANGED genVars
           \/ (Expire \/ Finished) /\ UNCHANGED <<uncounted, handlerVars>>
  BY <1>0, <1>1, FilesKept DEF DeviceStep, LoopStep, HandlerPanics, handlerVars, genVars
<1>2. CASE RecordBatch
  <2>1. UNCHANGED <<files, accepted, printed>> /\ step = "record" /\ step' \in {"record", "verify"}
    BY <1>2 DEF RecordBatch, InHandler
  <2> QED BY <1>0, <2>1 DEF GenInv, Saved
<1>3. CASE VerifyOk
  <2>1. CASE Saving
    BY <1>0, <1>3, <2>1, FilesKept DEF VerifyOk, InHandler
  <2>2. CASE ~Saving
    BY <1>0, <1>3, <2>2 DEF VerifyOk, InHandler, GenInv, Saved
  <2> QED BY <2>1, <2>2
<1>4. CASE VerifyFails
  BY <1>0, <1>4, FilesKept DEF VerifyFails, InHandler
<1>5. ASSUME InHandler("save"), files' = Written(accepted + 1),
             UNCHANGED <<hit, accepted, printed>>,
             step' = "accept" \/ (step' = "record" /\ error' # "none")
      PROVE  Saved'
  <2>1. accepted \in Nat /\ Len(printed) = accepted /\ step = "save"
    BY <1>5 DEF GenInv, HandlerTypes, Handler, InHandler
  <2>2. /\ DOMAIN files' = DOMAIN files \cup {accepted + 1} /\ files'[accepted + 1] = hit
        /\ \A m \in DOMAIN files : m # accepted + 1 => files'[m] = files[m]
    BY <1>5, WrittenAdds
  <2>3. \A n \in DOMAIN files' : n \in 1 .. accepted' + 1
    BY <1>5, <2>1, <2>2 DEF GenInv, Saved
  <2>4. Saving => \A n \in 1 .. Len(printed') : n \in DOMAIN files' /\ files'[n] = printed'[n]
    BY <1>5, <2>1, <2>2 DEF GenInv, Saved
  <2> QED BY <1>5, <2>2, <2>3, <2>4 DEF Saved
<1>6. CASE SaveOk
  BY <1>5, <1>6 DEF SaveOk
<1>7. CASE SaveFails
  <2>1. InHandler("save") /\ UNCHANGED <<hit, accepted, printed>> /\ step' = "record" /\ error' = "err"
    BY <1>7 DEF SaveFails, HandleBatchErr, RecordError
  <2>2. CASE files' = files
    BY <1>0, <2>1, <2>2, FilesKept DEF InHandler
  <2>3. CASE files' = Written(accepted + 1)
    BY <1>5, <2>1, <2>3
  <2> QED BY <1>7, <2>2, <2>3 DEF SaveFails
<1>8. CASE Accept
  <2>1. accepted \in Nat /\ Len(printed) = accepted /\ step = "accept" /\ accepted' = accepted + 1
    BY <1>8 DEF Accept, InHandler, GenInv, HandlerTypes, Handler
  <2>2. UNCHANGED <<files, hit, printed>> /\ step' = "print"
    BY <1>8 DEF Accept
  <2>3. \A n \in DOMAIN files' : n \in 1 .. accepted' + 1 /\ n # accepted' + 1
    BY <2>1, <2>2 DEF GenInv, Saved
  <2> QED BY <2>1, <2>2, <2>3 DEF GenInv, Saved
<1>9. CASE PrintResult
  <2>1. /\ accepted \in Nat /\ accepted = Len(printed) + 1 /\ step = "print" /\ step' = "record"
        /\ UNCHANGED <<files, hit, accepted>>
    BY <1>9 DEF PrintResult, InHandler, GenInv, HandlerTypes, Handler
  <2>2. /\ Len(printed') = accepted /\ printed'[accepted] = hit
        /\ \A n \in 1 .. Len(printed) : printed'[n] = printed[n]
    BY <1>9, <2>1 DEF PrintResult, GenInv, HandlerTypes
  <2>3. \A n \in 1 .. Len(printed') : n \in 1 .. Len(printed) \/ n = accepted
    BY <2>1, <2>2
  <2> QED BY <1>0, <2>1, <2>2, <2>3 DEF GenInv, Saved
<1>10. CASE DeviceStopped
  BY <1>0, <1>10, FilesKept DEF DeviceStopped
<1> QED BY <1>1, <1>2, <1>3, <1>4, <1>6, <1>7, <1>8, <1>9, <1>10 DEF GenNext, CoordinatorStep

LEMMA UnseenFinite == IsFiniteSet(Unseen) /\ Cardinality(Unseen) \in Nat
<1>1. Unseen \in SUBSET Devices
  BY DEF Unseen
<1> QED BY <1>1, DevicesAssumption, FS_Subset, FS_CardinalityType

\* No thread runs and no message waits behind the loop, unless the handler
\* panicked.
LEMMA OpenChannel ==
  ASSUME IInv, error # "panic", NEW d \in Devices, worker[d] \notin {"idle", "exited"}
  PROVE  ~Closed
BY DEF IInv, Ends

\* The result "err" is an error and stays one.
LEMMA ErrorResult == ASSUME GenInv, [Next]_vars PROVE result' = "err" => error' = "err"
<1>1. CASE UNCHANGED <<result, error>>
  BY <1>1 DEF GenInv, Counted
<1>2. CASE CoordStep
  BY <1>2 DEF CoordStep, StartIdle, SpawnWorkers, LoopTop, ReceiveNothing, ReceiveBatch,
     HandleBatchOk, HandleBatchErr, Acknowledge, ReceiveFailed, ReceiveStopped, HandleStoppedOk,
     HandleStoppedErr, HandlePanics, Return, RecordError, Receive, GenInv, IInv, Reason, TypeOK
<1>3. CASE (\E d \in Devices : WorkerStep(d)) \/ Expire \/ Finished \/ UNCHANGED vars
  BY <1>1, <1>3 DEF WorkerStep, MakeWorker, MakeWorkerFails, CheckStop, RunBatch, RunBatchFails,
     SendBatch, ReceiveAck, DropWorker, SendFailed, SendStopped, Expire, Finished, vars, coordVars
<1> QED BY <1>2, <1>3 DEF Next

\* A device's own step: a completed batch is one more to count, and its message
\* takes its place when it is sent.
LEMMA DeviceCounts ==
  ASSUME GenInv, NEW d \in Devices, DeviceStep(d), error # "panic"
  PROVE  uncounted' = Cardinality(Unseen')
<1>0. UNCHANGED <<coord, cur, error, step>> /\ WorkerStep(d)
  BY DEF DeviceStep, handlerVars, WorkerStep, MakeWorker, MakeWorkerFails, CheckStop, RunBatch,
     RunBatchFails, SendBatch, ReceiveAck, DropWorker, SendFailed, SendStopped, coordVars
<1>1. CASE RunBatch(d)
  <2>1. /\ worker[d] = "batch" /\ worker'[d] = "send" /\ uncounted' = uncounted + 1
        /\ \A e \in Devices : e # d => worker'[e] = worker[e]
    BY <1>1 DEF RunBatch, Goto, DeviceStep, GenInv, IInv, TypeOK
  <2>2. d \notin Unseen
    BY <2>1 DEF GenInv, IInv, Origin, Desk, Unseen
  <2>3. \A e \in Devices : Has(e, "batch")' <=> Has(e, "batch")
    BY <1>1, HasKept DEF RunBatch
  <2>4. Unseen' = Unseen \cup {d}
    BY <1>0, <2>1, <2>3 DEF Unseen
  <2>5. Cardinality(Unseen') = Cardinality(Unseen) + 1
    BY <2>2, <2>4, UnseenFinite, FS_AddElement
  <2> QED BY <2>1, <2>5 DEF GenInv, Counted
<1>2. CASE SendBatch(d)
  <2>1. /\ worker[d] = "send" /\ ~Closed /\ worker'[d] = "ack" /\ uncounted' = uncounted
        /\ \A e \in Devices : e # d => worker'[e] = worker[e]
    BY <1>2, OpenChannel DEF SendBatch, Goto, DeviceStep, GenInv, IInv, TypeOK
  <2>2. PICK h \in BOOLEAN : Send(BatchMsg(d, h))
    BY <1>2 DEF SendBatch
  <2>3. \A e \in Devices : Has(e, "batch")' <=> Has(e, "batch") \/ e = d
    BY <2>1, <2>2, BatchSent DEF GenInv, IInv
  <2>4. Unseen' = Unseen
    BY <1>0, <2>1, <2>3 DEF Unseen
  <2> QED BY <2>1, <2>4 DEF GenInv, Counted
<1>3. CASE SendFailed(d) \/ SendStopped(d)
  <2>1. /\ worker[d] \in {"fail", "stop"} /\ worker'[d] # "send" /\ uncounted' = uncounted
        /\ \A e \in Devices : e # d => worker'[e] = worker[e]
    BY <1>3 DEF SendFailed, SendStopped, Goto, DeviceStep, GenInv, IInv, TypeOK
  <2>2. \A e \in Devices : Has(e, "batch")' <=> Has(e, "batch")
    BY <1>3, FailedSent, StoppedSent DEF SendFailed, SendStopped, GenInv, IInv
  <2>3. Unseen' = Unseen
    BY <1>0, <2>1, <2>2 DEF Unseen
  <2> QED BY <2>1, <2>3 DEF GenInv, Counted
<1>4. CASE \/ MakeWorker(d) \/ MakeWorkerFails(d) \/ CheckStop(d) \/ RunBatchFails(d)
           \/ ReceiveAck(d) \/ DropWorker(d)
  <2>1. /\ worker[d] # "send" /\ worker'[d] # "send" /\ uncounted' = uncounted /\ UNCHANGED chan
        /\ \A e \in Devices : e # d => worker'[e] = worker[e]
    BY <1>4 DEF MakeWorker, MakeWorkerFails, CheckStop, RunBatchFails, ReceiveAck, DropWorker, Goto,
       DeviceStep, GenInv, IInv, TypeOK
  <2>2. \A e \in Devices : Has(e, "batch")' <=> Has(e, "batch")
    BY <2>1, HasKept
  <2>3. Unseen' = Unseen
    BY <1>0, <2>1, <2>2 DEF Unseen
  <2> QED BY <2>1, <2>3 DEF GenInv, Counted
<1> QED BY <1>0, <1>1, <1>2, <1>3, <1>4 DEF WorkerStep

\* The coordinator outside the handler: a batch it receives goes to the handler.
LEMMA LoopCounts ==
  ASSUME GenInv, LoopStep, error' # "panic"
  PROVE  uncounted' = Cardinality(Unseen')
<1>1. /\ UNCHANGED <<uncounted, step>> /\ coord # "handle" /\ error # "panic"
  BY DEF LoopStep, handlerVars, StartIdle, SpawnWorkers, LoopTop, ReceiveNothing, ReceiveBatch,
     Acknowledge, ReceiveFailed, RecordError, ReceiveStopped, Return, Receive, GenInv, IInv, Ends,
     Closed
<1>2. step = "record" /\ uncounted = Cardinality(Unseen)
  BY <1>1 DEF GenInv, Handler, Counted
<1>3. CASE StartIdle \/ SpawnWorkers \/ LoopTop \/ ReceiveNothing \/ Acknowledge \/ Return
  <2>1. /\ UNCHANGED chan /\ coord' # "handle"
        /\ \A e \in Devices : worker'[e] = "send" <=> worker[e] = "send"
    BY <1>3 DEF StartIdle, SpawnWorkers, LoopTop, ReceiveNothing, Acknowledge, Return, workerVars,
       GenInv, IInv, Ends
  <2>2. Unseen' = Unseen
    BY <1>1, <2>1, HasKept DEF Unseen
  <2> QED BY <1>1, <1>2, <2>2
<1>4. CASE ReceiveBatch
  <2>1. PICK d \in Devices : /\ Head(chan).dev = d /\ Has(d, "batch") /\ Head(chan) \in Message
                             /\ \A e, l : Has(e, l)' <=> Has(e, l) /\ ~(e = d /\ l = "batch")
    BY <1>4, HasReceived DEF ReceiveBatch, GenInv, IInv
  <2>2. coord' = "handle" /\ cur'.dev = d /\ UNCHANGED worker
    BY <1>4, <2>1 DEF ReceiveBatch, Message, workerVars
  <2>3. Unseen' = Unseen
    BY <1>1, <1>2, <2>1, <2>2 DEF Unseen
  <2> QED BY <1>1, <1>2, <2>3
<1>5. CASE ReceiveFailed \/ ReceiveStopped
  <2>1. PICK k \in {"failed", "stopped"} : Receive(k)
    BY <1>5 DEF ReceiveFailed, ReceiveStopped
  <2>2. \A e \in Devices : Has(e, "batch")' <=> Has(e, "batch")
    BY <2>1, HasReceived DEF GenInv, IInv
  <2>3. coord' # "handle" /\ UNCHANGED worker
    BY <1>5 DEF ReceiveFailed, ReceiveStopped, workerVars
  <2>4. Unseen' = Unseen
    BY <1>1, <2>2, <2>3 DEF Unseen
  <2> QED BY <1>1, <1>2, <2>4
<1> QED BY <1>3, <1>4, <1>5 DEF LoopStep

\* progress.attempts lacks exactly the batches on their way to the handler.
LEMMA CountedStep == ASSUME GenInv, [GenNext]_genVars PROVE Counted'
<1>1. result' = "err" => error' = "err"
  BY GenIsStep, ErrorResult
<1>2. ASSUME UNCHANGED <<chan, worker, uncounted>>, error' # "panic" => error # "panic",
             coord = "handle" => step # "record" \/ (coord' = "handle" /\ step' = "record"),
             coord' = "handle" => step' # "record" \/ (coord = "handle" /\ step = "record"),
             coord = "handle" => UNCHANGED cur \/ coord' # "handle"
      PROVE  Counted'
  <2>1. Unseen' = Unseen
    BY <1>2, HasKept DEF Unseen
  <2> QED BY <1>1, <1>2, <2>1 DEF GenInv, Counted
<1>3. ASSUME NEW d \in Devices, DeviceStep(d) PROVE Counted'
  <2>1. error' = error
    BY <1>3 DEF DeviceStep, WorkerStep, MakeWorker, MakeWorkerFails, CheckStop, RunBatch,
       RunBatchFails, SendBatch, ReceiveAck, DropWorker, SendFailed, SendStopped, coordVars
  <2> QED BY <1>1, <1>3, <2>1, DeviceCounts DEF Counted
<1>4. CASE LoopStep
  BY <1>1, <1>4, LoopCounts DEF Counted
<1>5. CASE RecordBatch
  <2> DEFINE d == cur.dev
  <2>1. /\ coord = "handle" /\ step = "record" /\ uncounted' = uncounted - 1
        /\ UNCHANGED <<chan, worker, error>> /\ (step' # "record" \/ coord' # "handle")
    BY <1>5 DEF RecordBatch, InHandler, HandleBatchOk, vars, coordVars, workerVars
  <2>2. d \in Devices /\ worker[d] = "ack" /\ ~Has(d, "batch") /\ error # "panic"
    BY <2>1, InHand DEF GenInv, IInv, Desk, Silent, Kinds
  <2>3. d \in Unseen /\ Unseen' = Unseen \ {d}
    BY <2>1, <2>2, HasKept DEF Unseen
  <2>4. Cardinality(Unseen') = Cardinality(Unseen) - 1
    BY <2>3, UnseenFinite, FS_RemoveElement
  <2> QED BY <1>1, <2>1, <2>2, <2>4 DEF GenInv, Counted
<1>6. CASE VerifyOk \/ SaveOk \/ Accept
  BY <1>2, <1>6 DEF VerifyOk, SaveOk, Accept, InHandler, vars, coordVars, workerVars
<1>7. CASE VerifyFails \/ SaveFails \/ PrintResult
  BY <1>2, <1>7, InHand DEF VerifyFails, SaveFails, PrintResult, HandleBatchErr, HandleBatchOk,
     InHandler, workerVars, GenInv
<1>8. CASE DeviceStopped
  BY <1>2, <1>8 DEF DeviceStopped, HandleStoppedOk, workerVars
<1>9. CASE HandlerPanics
  BY <1>1, <1>9 DEF HandlerPanics, HandlePanics, Counted
<1>10. CASE \/ (Expire \/ Finished) /\ UNCHANGED <<uncounted, handlerVars>>
            \/ UNCHANGED genVars
  BY <1>2, <1>10 DEF Expire, Finished, genVars, vars, coordVars, workerVars, handlerVars
<1> QED BY <1>3, <1>4, <1>5, <1>6, <1>7, <1>8, <1>9, <1>10 DEF GenNext, CoordinatorStep

\* A device's message waits as long as nobody receives it.
LEMMA RatesKept ==
  ASSUME GenInv, UNCHANGED <<chan, rate, worker>>, error' # "panic" => error # "panic",
         coord # "handleStopped" \/ UNCHANGED <<coord, cur>>
  PROVE  Rates'
BY HasKept DEF GenInv, Rates, Silent

\* A thread that exits leaves its Stopped message behind.
LEMMA DeviceRates == ASSUME GenInv, NEW d \in Devices, DeviceStep(d) PROVE Rates'
<1>1. /\ UNCHANGED <<coord, cur, error, rate>> /\ WorkerStep(d)
      /\ \A e \in Devices : e # d => worker'[e] = worker[e]
  BY DEF DeviceStep, handlerVars, WorkerStep, MakeWorker, MakeWorkerFails, CheckStop, RunBatch,
     RunBatchFails, SendBatch, ReceiveAck, DropWorker, SendFailed, SendStopped, Goto, coordVars,
     GenInv, IInv, TypeOK
<1>2. ASSUME NEW e \in Devices, ~Silent(e) PROVE ~Silent(e)'
  <2>1. ASSUME NEW m \in Message, Send(m) PROVE ~Silent(e)'
    BY <1>2, <2>1, HasSent DEF Silent, GenInv, IInv
  <2>2. CASE SendBatch(d) \/ SendFailed(d) \/ SendStopped(d)
    BY <2>1, <2>2, MessageTypes DEF SendBatch, SendFailed, SendStopped
  <2>3. CASE UNCHANGED chan
    BY <1>2, <2>3, HasKept DEF Silent
  <2> QED BY <1>1, <2>2, <2>3 DEF WorkerStep, MakeWorker, MakeWorkerFails, CheckStop, RunBatch,
         RunBatchFails, ReceiveAck, DropWorker
<1>3. error # "panic" /\ worker'[d] = "exited" => ~Silent(d)'
  <2>1. CASE SendStopped(d)
    <3>1. worker[d] = "stop" /\ Send(StoppedMsg(d))
      BY <2>1 DEF SendStopped, Goto
    <3>2. error # "panic" => Has(d, "stopped")'
      BY <3>1, OpenChannel, StoppedSent DEF GenInv, IInv
    <3> QED BY <3>2 DEF Silent, Kinds
  <2>2. CASE ~SendStopped(d)
    BY <1>1, <2>2 DEF WorkerStep, MakeWorker, MakeWorkerFails, CheckStop, RunBatch, RunBatchFails,
       SendBatch, ReceiveAck, DropWorker, SendFailed, Goto, GenInv, IInv, TypeOK
  <2> QED BY <2>1, <2>2
<1> QED BY <1>1, <1>2, <1>3 DEF GenInv, Rates

\* A message is received of a thread that goes on, that has another one waiting,
\* or that the coordinator is about to report.
LEMMA LoopRates == ASSUME GenInv, LoopStep PROVE Rates'
<1>1. /\ UNCHANGED rate /\ coord # "handleStopped" /\ (error' # "panic" => error # "panic")
  BY DEF LoopStep, handlerVars, StartIdle, SpawnWorkers, LoopTop, ReceiveNothing, ReceiveBatch,
     Acknowledge, ReceiveFailed, RecordError, ReceiveStopped, Return, Receive, GenInv, IInv, Ends,
     Closed
<1>2. CASE StartIdle \/ LoopTop \/ ReceiveNothing \/ Acknowledge \/ Return
  BY <1>1, <1>2, RatesKept DEF StartIdle, LoopTop, ReceiveNothing, Acknowledge, Return, workerVars
<1>3. CASE SpawnWorkers
  BY <1>3 DEF SpawnWorkers, Rates
<1>4. ASSUME NEW k \in Kinds, Receive(k), UNCHANGED worker,
             k = "stopped" => coord' = "handleStopped" /\ cur' = Head(chan)
      PROVE  Rates'
  <2>1. PICK d \in Devices : /\ Head(chan).dev = d /\ Has(d, k)
                             /\ \A e, l : Has(e, l)' <=> Has(e, l) /\ ~(e = d /\ l = k)
    BY <1>4, HasReceived DEF GenInv, IInv
  <2>2. \A e \in Devices : e # d => (Silent(e)' <=> Silent(e))
    BY <2>1 DEF Silent
  <2>3. k = "batch" => worker[d] # "exited"
    BY <2>1 DEF GenInv, IInv, Origin
  <2>4. k = "failed" /\ worker[d] = "exited" => ~Silent(d)'
    BY <2>1 DEF GenInv, IInv, Origin, Silent, Kinds
  <2> QED BY <1>1, <1>4, <2>1, <2>2, <2>3, <2>4 DEF GenInv, Rates, Kinds
<1>5. CASE ReceiveBatch \/ ReceiveFailed \/ ReceiveStopped
  BY <1>4, <1>5 DEF ReceiveBatch, ReceiveFailed, ReceiveStopped, workerVars, Kinds
<1> QED BY <1>2, <1>3, <1>5 DEF LoopStep

\* A rate is set for a device that runs, and reset when it is reported gone.
LEMMA RatesStep == ASSUME GenInv, [GenNext]_genVars PROVE Rates'
<1>1. ASSUME NEW d \in Devices, DeviceStep(d) PROVE Rates'
  BY <1>1, DeviceRates
<1>2. CASE LoopStep
  BY <1>2, LoopRates
<1>3. CASE RecordBatch
  <2>1. /\ UNCHANGED <<chan, worker, error>> /\ coord = "handle"
        /\ rate' = [rate EXCEPT ![cur.dev] = TRUE] /\ worker[cur.dev] = "ack"
    BY <1>3, InHand DEF RecordBatch, InHandler, HandleBatchOk, vars, coordVars, workerVars, GenInv
  <2>2. \A e \in Devices : e # cur.dev => rate'[e] = rate[e]
    BY <2>1 DEF GenInv, HandlerTypes
  <2>3. \A e \in Devices : Silent(e)' <=> Silent(e)
    BY <2>1, HasKept DEF Silent
  <2> QED BY <2>1, <2>2, <2>3 DEF GenInv, Rates
<1>4. CASE VerifyOk \/ VerifyFails \/ SaveOk \/ SaveFails \/ Accept \/ PrintResult
  <2>1. UNCHANGED <<chan, rate, worker>> /\ coord = "handle" /\ error # "panic"
    BY <1>4, InHand DEF VerifyOk, VerifyFails, SaveOk, SaveFails, Accept, PrintResult, InHandler,
       HandleBatchErr, HandleBatchOk, vars, coordVars, workerVars, GenInv
  <2> QED BY <2>1, RatesKept
<1>5. CASE DeviceStopped
  <2>1. /\ UNCHANGED <<chan, worker, error>> /\ coord = "handleStopped"
        /\ rate' = [rate EXCEPT ![cur.dev] = FALSE]
    BY <1>5 DEF DeviceStopped, HandleStoppedOk, workerVars
  <2>2. \A e \in Devices : IF e = cur.dev THEN ~rate'[e] ELSE rate'[e] = rate[e]
    BY <2>1 DEF GenInv, HandlerTypes
  <2>3. \A e \in Devices : Silent(e)' <=> Silent(e)
    BY <2>1, HasKept DEF Silent
  <2> QED BY <2>1, <2>2, <2>3 DEF GenInv, Rates
<1>6. CASE HandlerPanics
  BY <1>6 DEF HandlerPanics, HandlePanics, Rates
<1>7. CASE \/ (Expire \/ Finished) /\ UNCHANGED <<uncounted, handlerVars>>
           \/ UNCHANGED genVars
  BY <1>7, RatesKept DEF Expire, Finished, genVars, vars, coordVars, workerVars, handlerVars
<1> QED BY <1>1, <1>2, <1>3, <1>4, <1>5, <1>6, <1>7 DEF GenNext, CoordinatorStep

LEMMA GenInitInv == GenInit => GenInv
<1> SUFFICES ASSUME GenInit PROVE GenInv
  OBVIOUS
<1>1. IInv
  BY InitIInv DEF GenInit
<1>2. HandlerTypes
  <2>1. <<>> \in Seq(Nat)
    OBVIOUS
  <2> QED BY <2>1 DEF GenInit, HandlerTypes
<1>3. Handler /\ Saved /\ Rates
  BY DEF GenInit, Init, Handler, Saved, Rates
<1>4. Unseen = {}
  BY HasNothing DEF GenInit, Init, Unseen
<1>5. Counted
  BY <1>4, FS_EmptySet DEF GenInit, Init, Counted
<1> QED BY <1>1, <1>2, <1>3, <1>5 DEF GenInv

\* The inductive invariant of the scheduler with this handler.
THEOREM GenInvariance == GenSpec => []GenInv
<1>1. GenInv /\ [GenNext]_genVars => GenInv'
  <2> SUFFICES ASSUME GenInv, [GenNext]_genVars PROVE GenInv'
    OBVIOUS
  <2>1. IInv'
    BY GenIsStep, IInvStep DEF GenInv
  <2> QED BY <2>1, HandlerTypesStep, HandlerStep, SavedStep, CountedStep, RatesStep DEF GenInv
<1> QED BY GenInitInv, <1>1, PTL DEF GenSpec

-----------------------------------------------------------------------------
(* The properties of GpuGenerate. *)

\* A result is in its file before it is printed.
THEOREM PrintedIsSaved == GenSpec => []SavedWhenPrinted
<1>1. GenInv => SavedWhenPrinted
  BY DEF GenInv, Saved, SavedWhenPrinted
<1> QED BY GenInvariance, <1>1, PTL

\* No save touches the file of another result, because only a free number is
\* used: a save that failed half way stops the search.
THEOREM FilesStay == GenSpec => NeverOverwritten
<1>1. GenInv /\ [GenNext]_genVars =>
        [\A n \in DOMAIN files : n \in DOMAIN files' /\ files'[n] = files[n]]_genVars
  <2> SUFFICES ASSUME GenInv, GenNext
               PROVE  \A n \in DOMAIN files : n \in DOMAIN files' /\ files'[n] = files[n]
    OBVIOUS
  <2>1. CASE UNCHANGED files
    BY <2>1
  <2>2. CASE SaveOk \/ SaveFails
    <3>1. InHandler("save") /\ (files' = files \/ files' = Written(accepted + 1))
      BY <2>2 DEF SaveOk, SaveFails
    <3> QED BY <3>1, NumberFree, WrittenAdds
  <2> QED BY <2>1, <2>2 DEF GenNext, CoordinatorStep, DeviceStep, LoopStep, RecordBatch, VerifyOk,
         VerifyFails, Accept, PrintResult, DeviceStopped, HandlerPanics, handlerVars
<1> QED BY GenInvariance, <1>1, PTL DEF GenSpec, NeverOverwritten

\* Attempts, results and rates on the display are those of the search.
THEOREM DisplayAgrees == GenSpec => []CountsAgree
<1>1. GenInv => CountsAgree
  <2> SUFFICES ASSUME GenInv PROVE CountsAgree
    OBVIOUS
  <2>1. ASSUME result \in {"ok", "err"} PROVE uncounted = 0
    <3>1. coord = "returned" /\ error # "panic"
      BY <2>1 DEF GenInv, IInv, Reason, Counted
    <3>2. \A d \in Devices : worker[d] \in {"idle", "exited"} /\ Silent(d)
      BY <3>1 DEF GenInv, IInv, Ends, Closed
    <3>3. Unseen = {}
      BY <3>1, <3>2 DEF Unseen, Silent, Kinds
    <3> QED BY <3>1, <3>3, FS_EmptySet DEF GenInv, Counted
  <2>2. coord # "handle" /\ error # "panic" => accepted = found /\ shown = found
    BY DEF GenInv, Handler
  <2>3. \A d \in Devices : ~Silent(d) => \E i \in 1 .. Len(chan) : chan[i].dev = d
    BY DEF Silent, Has, Pos
  <2> QED BY <2>1, <2>2, <2>3 DEF GenInv, Rates, CountsAgree
<1> QED BY GenInvariance, <1>1, PTL
=============================================================================
