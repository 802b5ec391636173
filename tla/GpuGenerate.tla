---------------------------- MODULE GpuGenerate ----------------------------
(***************************************************************************)
(* gpu::generate: the scheduler composed with the event handler it is given*)
(* (src/gpu.rs lines 209-269), which counts every batch, checks a hit on   *)
(* the CPU, saves it under a sequence number, counts and prints it.        *)
(*                                                                         *)
(* One batch is one unit of work.  progress.attempts only ever grows, so   *)
(* the model keeps how far it lags behind the work done instead; hits are  *)
(* named by the order in which they reach the handler.                     *)
(***************************************************************************)
EXTENDS GpuScheduler

CONSTANT Saving      \* was --save given?
ASSUME SavingAssumption == Saving \in BOOLEAN

VARIABLES
  step,      \* where the handler is while the coordinator is in "handle"
  uncounted, \* batches the devices have completed less progress.attempts
  hit,       \* history: hits the handler has been given, the last one's name
  rate,      \* device_rates: does the device show a rate other than 0?
  files,     \* saved results: sequence number -> hit
  accepted,  \* `accepted`
  shown,     \* progress.found
  printed    \* the hits that have been printed, in order

handlerVars == <<step, hit, rate, files, accepted, shown, printed>>
genVars == <<vars, uncounted, handlerVars>>

GenInit ==
  /\ Init
  /\ step = "record" /\ uncounted = 0 /\ hit = 0
  /\ rate = [d \in Devices |-> FALSE]
  /\ files = <<>> /\ accepted = 0 /\ shown = 0 /\ printed = <<>>

-----------------------------------------------------------------------------
\* The worker threads; a batch that completes is work done.
DeviceStep(d) ==
  /\ WorkerStep(d)
  /\ uncounted' = IF worker[d] = "batch" /\ worker'[d] = "send" THEN uncounted + 1
                                                                ELSE uncounted
  /\ UNCHANGED handlerVars

\* The coordinator outside the handler.
LoopStep ==
  /\ \/ StartIdle \/ SpawnWorkers \/ LoopTop \/ ReceiveNothing \/ ReceiveBatch
     \/ Acknowledge \/ ReceiveFailed \/ ReceiveStopped \/ Return
  /\ UNCHANGED <<uncounted, handlerVars>>

InHandler(s) == coord = "handle" /\ step = s

\* progress.record_batch; a batch without a hit (or whose hit was dropped)
\* needs nothing else.
RecordBatch ==
  /\ InHandler("record")
  /\ uncounted' = uncounted - 1
  /\ rate' = [rate EXCEPT ![cur.dev] = TRUE]
  /\ IF cur.hit
     THEN step' = "verify" /\ hit' = hit + 1 /\ UNCHANGED vars
     ELSE UNCHANGED <<step, hit>> /\ HandleBatchOk
  /\ UNCHANGED <<files, accepted, shown, printed>>

\* verify_hit: the CPU derives the same key and address, or the handler fails.
VerifyOk ==
  /\ InHandler("verify")
  /\ step' = IF Saving THEN "save" ELSE "accept"
  /\ UNCHANGED <<vars, uncounted, hit, rate, files, accepted, shown, printed>>

\* Deviation: a hit the CPU cannot confirm is dropped without an error.
VerifyFails_Forgets ==
  /\ InHandler("verify") /\ coord' = "ack"
  /\ UNCHANGED <<alive, found, error, result, stopped, cur, expired, chan, acks, workerVars>>
  /\ step' = "record"
  /\ UNCHANGED <<uncounted, hit, rate, files, accepted, shown, printed>>

VerifyFails ==
  /\ InHandler("verify") /\ HandleBatchErr
  /\ step' = "record"
  /\ UNCHANGED <<uncounted, hit, rate, files, accepted, shown, printed>>

\* The file of sequence number n now holds the handler's hit.
Written(n) == [m \in DOMAIN files \cup {n} |-> IF m = n THEN hit ELSE files[m]]

\* save_result under the number accepted + 1.
SaveOk ==
  /\ InHandler("save")
  /\ files' = Written(accepted + 1)
  /\ step' = "accept"
  /\ UNCHANGED <<vars, uncounted, hit, rate, accepted, shown, printed>>

\* Deviation: a result that could not be saved is accepted all the same.
SaveFails_Ignored ==
  /\ InHandler("save")
  /\ step' = "accept"
  /\ UNCHANGED <<vars, uncounted, hit, rate, files, accepted, shown, printed>>

\* Deviation: a result that could not be saved is counted before the error.
SaveFails_Counted ==
  /\ InHandler("save") /\ HandleBatchErr
  /\ accepted' = accepted + 1 /\ shown' = shown + 1
  /\ step' = "record"
  /\ UNCHANGED <<uncounted, hit, rate, files, printed>>

\* save_result fails: nothing has been written, or the file is there and its
\* permissions could not be set.
SaveFails ==
  /\ InHandler("save") /\ HandleBatchErr
  /\ files' \in {files, Written(accepted + 1)}
  /\ step' = "record"
  /\ UNCHANGED <<uncounted, hit, rate, accepted, shown, printed>>

\* accepted += 1; progress.found()
Accept ==
  /\ InHandler("accept")
  /\ accepted' = accepted + 1 /\ shown' = shown + 1
  /\ step' = "print"
  /\ UNCHANGED <<vars, uncounted, hit, rate, files, printed>>

\* Deviation: the handler returns before it prints.
PrintResult_Skipped ==
  /\ InHandler("print") /\ HandleBatchOk
  /\ step' = "record"
  /\ UNCHANGED <<uncounted, hit, rate, files, accepted, shown, printed>>

\* progress.output(print_result), and the handler returns Ok.
PrintResult ==
  /\ InHandler("print") /\ HandleBatchOk
  /\ printed' = Append(printed, hit)
  /\ step' = "record"
  /\ UNCHANGED <<uncounted, hit, rate, files, accepted, shown>>

\* Event::Stopped: progress.gpu_stopped.
DeviceStopped ==
  /\ HandleStoppedOk
  /\ rate' = [rate EXCEPT ![cur.dev] = FALSE]
  /\ UNCHANGED <<uncounted, step, hit, files, accepted, shown, printed>>

\* println! and eprintln! panic when nobody reads them.
HandlerPanics == HandlePanics /\ UNCHANGED <<uncounted, handlerVars>>

CoordinatorStep ==
  \/ LoopStep \/ RecordBatch \/ VerifyOk \/ VerifyFails \/ SaveOk \/ SaveFails
  \/ Accept \/ PrintResult \/ DeviceStopped \/ HandlerPanics

GenNext ==
  \/ CoordinatorStep
  \/ \E d \in Devices : DeviceStep(d)
  \/ (Expire \/ Finished) /\ UNCHANGED <<uncounted, handlerVars>>

GenSpec == GenInit /\ [][GenNext]_genVars

GenFairSpec ==
  /\ GenSpec
  /\ WF_genVars(CoordinatorStep) /\ \A d \in Devices : WF_genVars(DeviceStep(d))

-----------------------------------------------------------------------------
(* Properties. *)

\* A result is saved before it is printed, each under its own number: whenever
\* the process ends, even killed, every printed result is in its file.
SavedWhenPrinted ==
  Saving => \A n \in 1 .. Len(printed) : n \in DOMAIN files /\ files[n] = printed[n]

\* A saved result is never replaced by another: a save that failed half way
\* does not give its number to the next hit.
NeverOverwritten ==
  [][\A n \in DOMAIN files : n \in DOMAIN files' /\ files'[n] = files[n]]_genVars

\* What progress shows is so: unless the handler panicked, a search that returns
\* has counted every batch any device completed, those after the last hit, the
\* deadline or an error included; outside the handler its count of results is
\* the scheduler's; and a device that has gone and been heard of shows no rate,
\* nor does one come back.
CountsAgree ==
  /\ result \in {"ok", "err"} => uncounted = 0
  /\ coord # "handle" /\ error # "panic" => accepted = found /\ shown = found
  /\ \A d \in Devices :
       rate[d] => \/ worker[d] # "exited"
                  \/ \E i \in 1 .. Len(chan) : chan[i].dev = d
                  \/ coord = "handleStopped" /\ cur.dev = d
                  \/ error = "panic"

\* The scheduler with this handler is the scheduler with any handler.
Scheduler == Spec

\* An accepted result is printed, unless the handler panics.
AcceptedIsPrinted ==
  \A n \in 1 .. Target : (accepted >= n) ~> (Len(printed) >= n \/ error = "panic")
=============================================================================
