---------------------------- MODULE PicturesProofs ----------------------------
(* Types and invariants of Pictures, for any pictures, any number of workers  *)
(* and any interleaving of their threads.                                     *)
EXTENDS PicturesInv, SequenceTheorems, TLAPS

USE DEF Waiting, InSensor, Settled, Reporting, Offloaded, Active

LEMMA QueueTypes ==
    ASSUME queue \in Seq(Jobs)
    PROVE  /\ \A p \in Pictures : /\ Append(queue, <<"step", p>>) \in Seq(Jobs)
                                  /\ Append(queue, <<"shot", p>>) \in Seq(Jobs)
           /\ queue # << >> => Tail(queue) \in Seq(Jobs) /\ Head(queue)[2] \in Pictures
           /\ << >> \in Seq(Jobs)
<1>1. \A p \in Pictures : <<"step", p>> \in Jobs /\ <<"shot", p>> \in Jobs
  BY DEF Jobs
<1>2. queue # << >> => Tail(queue) \in Seq(Jobs) /\ Head(queue) \in Jobs
  BY HeadTailProperties
<1>3. \A j \in Jobs : j[2] \in Pictures
  BY DEF Jobs
<1> QED  BY <1>1, <1>2, <1>3, AppendProperties, EmptySeq

(* What ws_send is given. *)
LEMMA Messages ==
    ASSUME NEW p \in Pictures
    PROVE  /\ task[p] = "success" => Message(p) = "SUCCESS"
           /\ task[p] = "failure" => Message(p) = "FAILED"
           /\ task[p] = "verdict" => Message(p) = IF p \in blocked THEN "neutral" ELSE "scored"
           /\ task[p] \in Reporting => Message(p) \in Kinds
           /\ task'[p] = "success" => Message(p)' = "SUCCESS"
           /\ task'[p] = "failure" => Message(p)' = "FAILED"
           /\ task'[p] = "verdict" => Message(p)' = IF p \in blocked' THEN "neutral" ELSE "scored"
           /\ task'[p] \in Reporting => Message(p)' \in Kinds
  BY DEF Message, Kinds

(* The next await: of a coroutine whose picture is p. *)
LEMMA AwaitTypes ==
    ASSUME TypeOK, NEW p \in Pictures, NEW stage \in {"over"} \cup Active,
           Await(p, stage)
    PROVE  /\ task' \in [Pictures -> {"idle", "over"} \cup Active]
           /\ step' \in [Pictures -> {"none", "queued", "busy", "modelWait", "invoke",
                                      "ok", "error", "blocked"} \cup Kinds]
           /\ queue' \in Seq(Jobs)
  BY QueueTypes DEF TypeOK, Await

(* An action of the camera manager writes camera, lock and the place of t. *)
LEMMA CameraTypes ==
    ASSUME TypeOK, NEW t \in Threads,
           LockAwaited(t) \/ SensorAnswers(t)
    PROVE  /\ camera' \in {"none", "open"} /\ lock' \in Threads \cup {Nobody}
           /\ at' \in [Threads -> {"none", "queued", "ok"} \cup Waiting \cup InSensor \cup Settled]
<1> USE DEF TypeOK, Go
<1>1. CASE LockAwaited(t)
  BY <1>1 DEF LockAwaited, StartCalled, ReadCalled, StopCalled, LockTimesOut
<1>2. CASE Started(t) \/ StartFails(t) \/ ReadEnds(t)
  BY <1>2 DEF Started, StartFails, ReadEnds
<1>3. CASE StopEnds(t)
  BY <1>3 DEF StopEnds
<1> QED  BY <1>1, <1>2, <1>3 DEF SensorAnswers

(* Some coroutines end, and what they wait for in the queue with them; the  *)
(* others are those of loops that are left.                                 *)
Cancels == Stop \/ CancelAgain \/ CancelAll

Cancelled(over) ==
    /\ loops' \subseteq loops
    /\ task' = [p \in Pictures |-> IF p \in over THEN "over" ELSE task[p]]
    /\ at' = Drop(at, over) /\ step' = Drop(step, over)
    /\ \A p \in over : task[p] \in Active
    /\ \A p \in Pictures \ over :
          task[p] \in Active /\ LoopOf(p) \in loops => LoopOf(p) \in loops'
    /\ UNCHANGED <<camera, lock, queue, modelVars, resultVars>>

LEMMA CancelShape ==
    ASSUME Cancels
    PROVE  \E over \in SUBSET Pictures : Cancelled(over)
<1>1. PICK ls \in SUBSET (loops \cup {"receive"}) : Cancel(ls)
  BY DEF Cancels, Stop, CancelAgain, CancelAll
<1>2. PICK deaf \in SUBSET MayBeDeaf :
        LET over == {p \in Pictures : task[p] \in Active /\ LoopOf(p) \in ls \ deaf} IN
        /\ loops' = loops \ (ls \ deaf)
        /\ task' = [p \in Pictures |-> IF p \in over THEN "over" ELSE task[p]]
        /\ at' = Drop(at, over) /\ step' = Drop(step, over)
        /\ UNCHANGED <<camera, lock, queue, modelVars, resultVars>>
  BY <1>1 DEF Cancel
<1> DEFINE over == {p \in Pictures : task[p] \in Active /\ LoopOf(p) \in ls \ deaf}
<1>3. Cancelled(over)
  BY <1>2 DEF Cancelled
<1> QED  BY <1>3

(* What the cancellation leaves of the places of one picture or thread. *)
LEMMA CancelledPlaces ==
    ASSUME TypeOK, NEW over \in SUBSET Pictures, Cancelled(over)
    PROVE  /\ \A t \in Threads : at'[t] = IF t \in over /\ at[t] = "queued" THEN "none" ELSE at[t]
           /\ \A p \in Pictures : /\ step'[p] = IF p \in over /\ step[p] = "queued"
                                               THEN "none" ELSE step[p]
                                 /\ task'[p] = IF p \in over THEN "over" ELSE task[p]
  BY DEF Cancelled, Drop, TypeOK

LEMMA TypeStep == TypeOK /\ [Next]_vars => TypeOK'
<1> SUFFICES ASSUME TypeOK, [Next]_vars PROVE TypeOK'
  OBVIOUS
<1> USE PicturesAssumption DEF cameraVars, taskVars, modelVars, resultVars
<1>1. ASSUME NEW t \in Threads, LockWaitEnds(t) \/ SensorReturns(t) PROVE TypeOK'
  BY <1>1, CameraTypes DEF LockWaitEnds, SensorReturns, TypeOK
<1>2. ASSUME NEW p \in Pictures, Job(p) PROVE TypeOK'
  <2>1. CASE UploadEnds(p)
    BY <2>1 DEF UploadEnds, TypeOK, Go
  <2>2. CASE StepEnds(p)
    BY <2>2 DEF StepEnds, Outcomes, TypeOK
  <2>3. CASE InsertEnds(p)
    BY <2>3 DEF InsertEnds, TypeOK
  <2>4. CASE ModelCalled(p)
    BY <2>4 DEF ModelCalled, TypeOK
  <2>5. CASE ModelReturns(p)
    <3>1. /\ step' \in {[step EXCEPT ![p] = "ok"], [step EXCEPT ![p] = "error"]}
          /\ scoreOf' \in {scoreOf, [scoreOf EXCEPT ![p] = tensor]}
          /\ model' = Nobody
          /\ UNCHANGED <<cameraVars, gateway, loops, task, queue, tensor, resultVars>>
      BY <2>5 DEF ModelReturns
    <3> QED  BY <3>1 DEF TypeOK
  <2> QED  BY <1>2, <2>1, <2>2, <2>3, <2>4, <2>5 DEF Job
<1>3. ASSUME NEW p \in Pictures, Coroutine(p) PROVE TypeOK'
  <2>1. CASE CaptureReturns(p)
    BY <2>1, AwaitTypes DEF CaptureReturns, GiveUp, TypeOK
  <2>2. CASE CaptureTimesOut(p)
    BY <2>2 DEF CaptureTimesOut, TypeOK
  <2>3. CASE ReportSent(p) \/ ReportStored(p)
    <3>1. Message(p) \in Kinds
      BY <2>3, Messages DEF ReportSent, ReportStored
    <3>2. reports' \subseteq Pictures \X Kinds
      BY <2>3, <3>1 DEF ReportSent, ReportStored, TypeOK
    <3>3. \E stage \in {"over"} \cup Active : Await(p, stage)
      BY <2>3 DEF ReportSent, ReportStored, Reported
    <3>4. UNCHANGED <<cameraVars, gateway, loops, modelVars, uploaded, blocked>>
      BY <2>3 DEF ReportSent, ReportStored, Reported
    <3> QED  BY <3>2, <3>3, <3>4, AwaitTypes DEF TypeOK
  <2>4. CASE StoreReport(p)
    BY <2>4, QueueTypes DEF StoreReport, TypeOK
  <2>5. CASE ReportRaises(p)
    BY <2>5, AwaitTypes DEF ReportRaises, TypeOK
  <2>6. CASE GateReturns(p)
    BY <2>6, AwaitTypes DEF GateReturns, TypeOK
  <2>7. CASE DetectionReturns(p)
    BY <2>7, AwaitTypes DEF DetectionReturns, TypeOK
  <2> QED  BY <1>3, <2>1, <2>2, <2>3, <2>4, <2>5, <2>6, <2>7 DEF Coroutine
<1>4. CASE WorkerTakes
  BY <1>4, QueueTypes, Messages DEF WorkerTakes, Begins, TypeOK
<1>5. ASSUME NEW p \in Pictures, Ask(p) PROVE TypeOK'
  BY <1>5, QueueTypes DEF Ask, TypeOK, Go
<1>6. CASE Cancels
  <2>1. PICK over \in SUBSET Pictures : Cancelled(over)
    BY <1>6, CancelShape
  <2>2. gateway' \in {"closing", "waiting", "joining"}
    BY <1>6 DEF Cancels, Stop, CancelAgain, CancelAll
  <2> QED  BY <2>1, <2>2 DEF Cancelled, Drop, TypeOK
<1>7. CASE ReceiveEnds \/ CallStop \/ ThreadsJoined
  BY <1>7 DEF ReceiveEnds, CallStop, ThreadsJoined, TypeOK, Go
<1>8. CASE UNCHANGED vars
  BY <1>8 DEF vars, TypeOK
<1> QED
  BY <1>1, <1>2, <1>3, <1>4, <1>5, <1>6, <1>7, <1>8
     DEF Next, Progress, Cancels

-------------------------------------------------------------------------------
(* The lock and the sensor. *)

(* A step in which no thread enters or leaves the camera manager. *)
LEMMA CameraUntouched ==
    ASSUME SensorSafe, camera' = camera, lock' = lock,
           \A t \in Threads : \/ at'[t] = at[t]
                              \/ at[t] \notin InSensor /\ at'[t] \notin InSensor
    PROVE  SensorSafe'
  BY DEF SensorSafe

LEMMA LockHandover ==
    ASSUME TypeOK, SensorSafe, NEW t \in Threads,
           LockAwaited(t) \/ SensorAnswers(t)
    PROVE  SensorSafe'
<1> USE CameraAssumption DEF TypeOK, SensorSafe, Go
<1>1. CASE StartCalled(t) \/ ReadCalled(t) \/ StopCalled(t)
  BY <1>1 DEF StartCalled, ReadCalled, StopCalled
<1>2. CASE LockTimesOut(t)
  BY <1>2 DEF LockTimesOut
<1>3. CASE Started(t) \/ StartFails(t)
  BY <1>3 DEF Started, StartFails
<1>4. CASE ReadEnds(t) \/ StopEnds(t)
  BY <1>4 DEF ReadEnds, StopEnds
<1> QED  BY <1>1, <1>2, <1>3, <1>4 DEF LockAwaited, SensorAnswers

(* A thread that is in no call of the camera manager stays in none. *)
LEMMA CallsUnderWay ==
    ASSUME TypeOK, NEW t \in Threads, LockAwaited(t) \/ SensorAnswers(t)
    PROVE  \A u \in Threads : at[u] = "none" => at'[u] = "none"
<1> USE DEF TypeOK, Go
<1>1. CASE LockAwaited(t)
  BY <1>1 DEF LockAwaited, StartCalled, ReadCalled, StopCalled, LockTimesOut
<1>2. CASE SensorAnswers(t)
  BY <1>2 DEF SensorAnswers, Started, StartFails, ReadEnds, StopEnds
<1> QED  BY <1>1, <1>2

(* The camera manager puts nothing into the queue of the executor. *)
LEMMA CallsNotQueued ==
    ASSUME TypeOK, NEW t \in Threads, LockAwaited(t) \/ SensorAnswers(t)
    PROVE  \A u \in Threads : at'[u] = at[u] \/ at'[u] # "queued"
<1> USE DEF TypeOK, Go
<1>1. CASE LockAwaited(t)
  BY <1>1 DEF LockAwaited, StartCalled, ReadCalled, StopCalled, LockTimesOut
<1>2. CASE SensorAnswers(t)
  BY <1>2 DEF SensorAnswers, Started, StartFails, ReadEnds, StopEnds
<1> QED  BY <1>1, <1>2

LEMMA SensorStep ==
    TypeOK /\ SensorSafe /\ CallsBegin /\ [Next]_vars => SensorSafe' /\ CallsBegin'
<1> SUFFICES ASSUME TypeOK, SensorSafe, CallsBegin, [Next]_vars
             PROVE  SensorSafe' /\ CallsBegin'
  OBVIOUS
<1> USE PicturesAssumption DEF cameraVars, taskVars, modelVars, resultVars
<1>1. ASSUME NEW t \in Threads, LockWaitEnds(t) \/ SensorReturns(t)
      PROVE  SensorSafe' /\ CallsBegin'
  <2>1. SensorSafe'
    BY <1>1, LockHandover DEF LockWaitEnds, SensorReturns
  <2>2. CallsBegin'
    BY <1>1, CallsUnderWay DEF LockWaitEnds, SensorReturns, CallsBegin
  <2> QED  BY <2>1, <2>2
<1>2. ASSUME NEW p \in Pictures, Job(p) PROVE SensorSafe' /\ CallsBegin'
  <2>1. CASE UploadEnds(p)
    <3>1. SensorSafe'
      BY <2>1, CameraUntouched DEF UploadEnds, Go, TypeOK
    <3>2. CallsBegin'
      BY <2>1 DEF UploadEnds, Go, TypeOK, CallsBegin
    <3> QED  BY <3>1, <3>2
  <2>2. CASE StepEnds(p) \/ InsertEnds(p) \/ ModelCalled(p) \/ ModelReturns(p)
    BY <2>2, CameraUntouched DEF StepEnds, InsertEnds, ModelCalled, ModelReturns, CallsBegin
  <2> QED  BY <1>2, <2>1, <2>2 DEF Job
<1>3. ASSUME NEW p \in Pictures, Coroutine(p) PROVE SensorSafe' /\ CallsBegin'
  <2>1. CASE CaptureTimesOut(p)
    <3>1. SensorSafe'
      BY <2>1, CameraUntouched DEF CaptureTimesOut, TypeOK
    <3>2. CallsBegin'
      BY <2>1 DEF CaptureTimesOut, TypeOK, CallsBegin
    <3> QED  BY <3>1, <3>2
  <2>2. CASE CaptureReturns(p)
    BY <2>2, CameraUntouched DEF CaptureReturns, GiveUp, Await, CallsBegin, TypeOK
  <2>3. CASE ReportSent(p) \/ ReportStored(p)
    BY <2>3, CameraUntouched DEF ReportSent, ReportStored, Reported, Await, CallsBegin, TypeOK
  <2>4. CASE StoreReport(p) \/ ReportRaises(p)
    BY <2>4, CameraUntouched DEF StoreReport, ReportRaises, Await, CallsBegin, TypeOK
  <2>5. CASE GateReturns(p) \/ DetectionReturns(p)
    BY <2>5, CameraUntouched DEF GateReturns, DetectionReturns, Await, CallsBegin, TypeOK
  <2> QED  BY <1>3, <2>1, <2>2, <2>3, <2>4, <2>5 DEF Coroutine
<1>4. CASE WorkerTakes
  <2>1. SensorSafe'
    BY <1>4, QueueTypes, CameraUntouched DEF WorkerTakes, TypeOK
  <2>2. CallsBegin'
    BY <1>4, QueueTypes DEF WorkerTakes, TypeOK, CallsBegin
  <2> QED  BY <2>1, <2>2
<1>5. ASSUME NEW p \in Pictures, Ask(p)
      PROVE  SensorSafe' /\ CallsBegin'
  <2>1. at[p] = "none"
    BY <1>5 DEF Ask, CallsBegin
  <2>2. SensorSafe'
    BY <1>5, <2>1, CameraUntouched DEF Ask, Go, TypeOK
  <2>3. CallsBegin'
    BY <1>5 DEF Ask, Go, TypeOK, CallsBegin
  <2> QED  BY <2>2, <2>3
<1>6. CASE Cancels
  <2>1. PICK over \in SUBSET Pictures : Cancelled(over)
    BY <1>6, CancelShape
  <2>2. SensorSafe'
    BY <2>1, CancelledPlaces, CameraUntouched DEF Cancelled
  <2>3. gateway' \in {"closing", "waiting"} => gateway \in {"running", "closing"}
    BY <1>6 DEF Cancels, Stop, CancelAgain, CancelAll
  <2>4. gateway' # "running"
    BY <1>6 DEF Cancels, Stop, CancelAgain, CancelAll
  <2>5. CallsBegin'
    BY <2>1, <2>3, <2>4, CancelledPlaces DEF CallsBegin, TypeOK
  <2> QED  BY <2>2, <2>5
<1>7. CASE CallStop
  <2>1. at[Loop] = "none"
    BY <1>7 DEF CallStop, CallsBegin
  <2>2. SensorSafe'
    BY <1>7, <2>1, CameraUntouched DEF CallStop, Go, TypeOK
  <2>3. CallsBegin'
    BY <1>7 DEF CallStop, Go, TypeOK, CallsBegin
  <2> QED  BY <2>2, <2>3
<1>8. CASE ReceiveEnds \/ ThreadsJoined \/ UNCHANGED vars
  BY <1>8, CameraUntouched DEF ReceiveEnds, ThreadsJoined, vars, CallsBegin
<1> QED
  BY <1>1, <1>2, <1>3, <1>4, <1>5, <1>6, <1>7, <1>8
     DEF Next, Progress, Cancels

-------------------------------------------------------------------------------
(* Storage, and what is said of a picture. *)

(* No picture's capture is found to be done by the camera manager. *)
LEMMA NoneDone ==
    ASSUME TypeOK, NEW t \in Threads, LockAwaited(t) \/ SensorAnswers(t)
    PROVE  \A u \in Threads : at'[u] = "ok" => at[u] = "ok"
<1> USE DEF TypeOK, Go
<1>1. CASE LockAwaited(t)
  BY <1>1 DEF LockAwaited, StartCalled, ReadCalled, StopCalled, LockTimesOut
<1>2. CASE SensorAnswers(t)
  BY <1>2 DEF SensorAnswers, Started, StartFails, ReadEnds, StopEnds
<1> QED  BY <1>1, <1>2

LEMMA StorageStep ==
    TypeOK /\ GoesOnWithPicture /\ [Next]_vars => GoesOnWithPicture'
<1> SUFFICES ASSUME TypeOK, GoesOnWithPicture, [Next]_vars
             PROVE  GoesOnWithPicture'
  OBVIOUS
<1> USE PicturesAssumption
    DEF cameraVars, taskVars, modelVars, resultVars, GoesOnWithPicture, AfterUpload
<1>1. ASSUME NEW t \in Threads, LockWaitEnds(t) \/ SensorReturns(t)
      PROVE  GoesOnWithPicture'
  <2>1. UNCHANGED <<task, uploaded>>
    BY <1>1 DEF LockWaitEnds, SensorReturns
  <2>2. \A p \in Pictures : at'[p] = "ok" => at[p] = "ok"
    BY <1>1, NoneDone DEF LockWaitEnds, SensorReturns
  <2> QED  BY <2>1, <2>2
<1>2. ASSUME NEW p \in Pictures, Job(p) PROVE GoesOnWithPicture'
  <2>1. CASE UploadEnds(p)
    BY <2>1 DEF UploadEnds, Go, TypeOK
  <2>2. CASE StepEnds(p) \/ InsertEnds(p) \/ ModelCalled(p) \/ ModelReturns(p)
    BY <2>2 DEF StepEnds, InsertEnds, ModelCalled, ModelReturns
  <2> QED  BY <1>2, <2>1, <2>2 DEF Job
<1>3. ASSUME NEW p \in Pictures, Coroutine(p) PROVE GoesOnWithPicture'
  <2>1. CASE CaptureReturns(p)
    BY <2>1 DEF CaptureReturns, GiveUp, Await, TypeOK
  <2>2. CASE CaptureTimesOut(p)
    BY <2>2 DEF CaptureTimesOut, TypeOK
  <2>3. CASE ReportSent(p) \/ ReportStored(p)
    BY <2>3 DEF ReportSent, ReportStored, Reported, Await, TypeOK
  <2>4. CASE StoreReport(p) \/ ReportRaises(p)
    BY <2>4 DEF StoreReport, ReportRaises, Await, TypeOK
  <2>5. CASE GateReturns(p) \/ DetectionReturns(p)
    BY <2>5 DEF GateReturns, DetectionReturns, Await, TypeOK
  <2> QED  BY <1>3, <2>1, <2>2, <2>3, <2>4, <2>5 DEF Coroutine
<1>4. CASE WorkerTakes
  BY <1>4, QueueTypes DEF WorkerTakes, TypeOK
<1>5. ASSUME NEW p \in Pictures, Ask(p)
      PROVE  GoesOnWithPicture'
  BY <1>5 DEF Ask, Go, TypeOK
<1>6. CASE Cancels
  <2>1. PICK over \in SUBSET Pictures : Cancelled(over)
    BY <1>6, CancelShape
  <2> QED  BY <2>1, CancelledPlaces DEF Cancelled
<1>7. CASE ReceiveEnds \/ CallStop \/ ThreadsJoined \/ UNCHANGED vars
  BY <1>7 DEF ReceiveEnds, CallStop, ThreadsJoined, vars, Go, TypeOK
<1> QED
  BY <1>1, <1>2, <1>3, <1>4, <1>5, <1>6, <1>7
     DEF Next, Progress, Cancels

-------------------------------------------------------------------------------
(* What is said of a picture. *)

LEMMA SaidAgain ==
    ASSUME UNCHANGED reports, NEW p \in Pictures
    PROVE  Said(p)' = Said(p)
  BY DEF Said

LEMMA OneMoreSaid ==
    ASSUME NEW p \in Pictures, NEW k \in Kinds, reports' = reports \cup {<<p, k>>}
    PROVE  /\ Said(p)' = Said(p) \cup {k}
           /\ \A q \in Pictures \ {p} : Said(q)' = Said(q)
  BY DEF Said

(* Nothing changes what may be said of a picture but what concerns it. *)
LEMMA StillMaySay ==
    ASSUME NEW p \in Pictures, NEW k, MaySay(p, k), Said(p)' = Said(p),
           p \in uploaded => p \in uploaded',
           p \in blocked' <=> p \in blocked, scoreOf'[p] = scoreOf[p]
    PROVE  MaySay(p, k)'
  BY DEF MaySay

LEMMA OthersKeep ==
    ASSUME NEW p \in Pictures, SaidAt(p), HandAt(p),
           task'[p] = task[p], step'[p] = step[p], Said(p)' = Said(p),
           p \in uploaded => p \in uploaded',
           p \in blocked' <=> p \in blocked, scoreOf'[p] = scoreOf[p]
    PROVE  SaidAt(p)' /\ HandAt(p)'
<1>1. SaidAt(p)'
  BY DEF SaidAt
<1>2. task[p] \in Reporting => Message(p)' = Message(p)
  BY Messages
<1>3. \A k : MaySay(p, k) => MaySay(p, k)'
  BY StillMaySay
<1>4. HandAt(p)'
  BY <1>2, <1>3 DEF HandAt
<1> QED  BY <1>1, <1>4

(* A step adds at most one report, a true one. *)
OneTrueReport(p, k) ==
    /\ MaySay(p, k) /\ reports' = reports \cup {<<p, k>>}
    /\ UNCHANGED <<uploaded, blocked, scoreOf>>

LEMMA OnlyTrueReports ==
    ASSUME TypeOK, ReportInHand, [Next]_vars
    PROVE  UNCHANGED reports \/ \E p \in Pictures, k \in Kinds : OneTrueReport(p, k)
<1> USE PicturesAssumption DEF resultVars, modelVars
<1>1. ASSUME NEW p \in Pictures, ReportSent(p) PROVE OneTrueReport(p, Message(p))
  BY <1>1 DEF ReportSent, Reported, ReportInHand, HandAt, OneTrueReport
<1>2. ASSUME NEW p \in Pictures, ReportSent(p) PROVE Message(p) \in Kinds
  BY <1>2, Messages DEF ReportSent
<1>3. ASSUME NEW p \in Pictures, InsertEnds(p), ~UNCHANGED reports
      PROVE  step[p] \in Kinds /\ OneTrueReport(p, step[p])
  BY <1>3 DEF InsertEnds, ReportInHand, HandAt, OneTrueReport
<1>4. ASSUME NEW p \in Pictures, Job(p), ~InsertEnds(p) PROVE UNCHANGED reports
  BY <1>4 DEF Job, UploadEnds, StepEnds, ModelCalled, ModelReturns
<1>5. ASSUME NEW p \in Pictures, Coroutine(p), ~ReportSent(p) PROVE UNCHANGED reports
  BY <1>5 DEF Coroutine, CaptureReturns, CaptureTimesOut, ReportStored, StoreReport,
              ReportRaises, GateReturns, DetectionReturns
<1>6. ASSUME NEW p \in Pictures, Ask(p) PROVE UNCHANGED reports
  BY <1>6 DEF Ask
<1>7. ASSUME NEW t \in Threads, LockWaitEnds(t) \/ SensorReturns(t) PROVE UNCHANGED reports
  BY <1>7 DEF LockWaitEnds, SensorReturns
<1>8. WorkerTakes \/ Cancels \/ ReceiveEnds \/ CallStop \/ ThreadsJoined \/ UNCHANGED vars => UNCHANGED reports
  BY DEF WorkerTakes, Cancels, Stop, CancelAgain, CancelAll, Cancel, ReceiveEnds, CallStop,
         ThreadsJoined, vars
<1> QED
  BY <1>1, <1>2, <1>3, <1>4, <1>5, <1>6, <1>7, <1>8
     DEF Next, Progress, Cancels

(* The hypotheses of the next lemmas: what holds of every picture now. *)
Now ==
    /\ TypeOK /\ GoesOnWithPicture /\ SaidSoFar /\ ReportInHand
    /\ OwnTensor /\ OwnScore /\ RightPlace

(* A thread of the executor that works for p. *)
LEMMA JobKeepsHands ==
    ASSUME Now, NEW p \in Pictures, Job(p), NEW q \in Pictures
    PROVE  SaidAt(q)' /\ HandAt(q)'
<1> USE DEF cameraVars, taskVars, modelVars, resultVars
<1>1. TypeOK /\ SaidAt(q) /\ HandAt(q) /\ HandAt(p) /\ SaidAt(p)
  BY DEF Now, SaidSoFar, ReportInHand
<1>2. UNCHANGED reports => Said(q)' = Said(q)
  BY SaidAgain
<1>3. CASE UploadEnds(p)
  <2>1. uploaded \subseteq uploaded' /\ UNCHANGED <<task, step, blocked, scoreOf, reports>>
    BY <1>3 DEF UploadEnds
  <2> QED  BY <2>1, <1>1, <1>2, OthersKeep
<1>4. CASE (StepEnds(p) \/ InsertEnds(p) \/ ModelCalled(p) \/ ModelReturns(p)) /\ q # p
  <2>1. UNCHANGED <<task, uploaded, blocked>> /\ step'[q] = step[q] /\ scoreOf'[q] = scoreOf[q]
    BY <1>4, <1>1 DEF StepEnds, InsertEnds, ModelCalled, ModelReturns, TypeOK
  <2>2. Said(q)' = Said(q)
    <3>1. CASE InsertEnds(p) /\ ~UNCHANGED reports
      BY <3>1, <1>4, OneMoreSaid DEF InsertEnds
    <3>2. CASE UNCHANGED reports
      BY <3>2, <1>2
    <3> QED  BY <3>1, <3>2, <1>4 DEF StepEnds, ModelCalled, ModelReturns
  <2> QED  BY <2>1, <2>2, <1>1, OthersKeep
<1>5. CASE (StepEnds(p) \/ ModelCalled(p) \/ ModelReturns(p)) /\ q = p
  <2>1. step[p] \in {"busy", "modelWait", "invoke"} /\ UNCHANGED <<task, reports>>
    BY <1>5 DEF StepEnds, ModelCalled, ModelReturns
  <2>2. step'[p] \in {"ok", "error", "blocked", "invoke"}
    BY <1>5, <1>1 DEF StepEnds, Outcomes, ModelCalled, ModelReturns, TypeOK
  <2>3. task[p] \notin Reporting \cup {"idle", "capture"}
    BY <2>1, <1>1, Messages DEF HandAt, Kinds
  <2>4. SaidAt(p)'
    BY <2>1, <2>3, <1>1, <1>2, <1>5 DEF SaidAt
  <2>5. HandAt(p)'
    BY <2>1, <2>2, <2>3 DEF HandAt, Kinds
  <2> QED  BY <2>4, <2>5, <1>5
<1>6. CASE InsertEnds(p) /\ q = p
  <2>1. /\ step[p] \in Kinds /\ MaySay(p, step[p]) /\ task[p] \in Reporting \cup {"over"}
        /\ UNCHANGED <<task, uploaded, blocked, scoreOf>>
    BY <1>6, <1>1 DEF InsertEnds, HandAt
  <2>2. task[p] \in Reporting => step[p] = Message(p) /\ Message(p)' = Message(p)
    BY <2>1, <1>1, Messages DEF HandAt, Kinds
  <2>3. CASE step'[p] = "ok" /\ reports' = reports \cup {<<p, step[p]>>}
    <3>1. Said(p)' = Said(p) \cup {step[p]}
      BY <2>1, <2>3, OneMoreSaid
    <3>2. SaidAt(p)'
      BY <2>1, <2>2, <3>1, Messages DEF SaidAt, MaySay
    <3>3. HandAt(p)'
      BY <2>1, <2>3 DEF HandAt, Kinds
    <3> QED  BY <3>2, <3>3, <1>6
  <2>4. CASE step'[p] = "error" /\ UNCHANGED reports
    <3>1. Said(p)' = Said(p) /\ (\A k : MaySay(p, k) => MaySay(p, k)')
      BY <2>1, <2>4, <1>2, <1>6, StillMaySay
    <3>2. SaidAt(p)'
      BY <2>1, <2>4 DEF SaidAt
    <3>3. HandAt(p)'
      BY <2>1, <2>2, <2>4, <3>1 DEF HandAt, Kinds
    <3> QED  BY <3>2, <3>3, <1>6
  <2> QED  BY <1>6, <1>1, <2>3, <2>4 DEF InsertEnds, TypeOK
<1> QED  BY <1>3, <1>4, <1>5, <1>6 DEF Job

(* The coroutine of p goes on. *)
LEMMA CoroutineKeepsHands ==
    ASSUME Now, NEW p \in Pictures, Coroutine(p), NEW q \in Pictures
    PROVE  SaidAt(q)' /\ HandAt(q)'
<1> USE DEF cameraVars, taskVars, modelVars, resultVars
<1>1. /\ TypeOK /\ SaidAt(q) /\ HandAt(q) /\ HandAt(p) /\ SaidAt(p)
      /\ UNCHANGED <<uploaded, scoreOf>>
  BY DEF Now, SaidSoFar, ReportInHand, Coroutine, CaptureReturns, CaptureTimesOut, ReportSent,
         ReportStored, Reported, StoreReport, ReportRaises, GateReturns, DetectionReturns
<1>2. UNCHANGED reports => Said(q)' = Said(q)
  BY SaidAgain
<1>3. CASE q # p
  <2>1. task'[q] = task[q] /\ step'[q] = step[q] /\ (q \in blocked' <=> q \in blocked)
    BY <1>1, <1>3 DEF TypeOK, Coroutine, CaptureReturns, GiveUp, CaptureTimesOut, ReportSent,
       ReportStored, Reported, StoreReport, ReportRaises, GateReturns, DetectionReturns, Await
  <2>2. Said(q)' = Said(q)
    <3>1. CASE ReportSent(p)
      <4>1. Message(p) \in Kinds /\ reports' = reports \cup {<<p, Message(p)>>}
        BY <3>1, Messages DEF ReportSent
      <4> QED  BY <4>1, <1>3, OneMoreSaid
    <3>2. CASE ~ReportSent(p)
      BY <3>2, <1>2 DEF Coroutine, CaptureReturns, CaptureTimesOut, ReportStored, StoreReport,
                        ReportRaises, GateReturns, DetectionReturns
    <3> QED  BY <3>1, <3>2
  <2> QED  BY <2>1, <2>2, <1>1, OthersKeep
<1>4. CASE q = p
  <2> SUFFICES SaidAt(p)' /\ HandAt(p)'
    BY <1>4
  <2>1. CASE CaptureReturns(p) \/ CaptureTimesOut(p)
    <3>1. /\ task[p] = "capture" /\ UNCHANGED <<reports, blocked>>
          /\ step'[p] = "none" /\ task'[p] \in {"success", "failure", "over"}
          /\ task'[p] = "success" => p \in uploaded
          /\ task'[p] = "failure" => p \in Manual
      BY <2>1, <1>1 DEF CaptureReturns, CaptureTimesOut, GiveUp, Await, TypeOK, HandAt,
                        Now, GoesOnWithPicture
    <3>2. Said(p)' = {}
      BY <3>1, <1>1, <1>2, <1>4 DEF SaidAt
    <3>3. SaidAt(p)'
      BY <3>1 DEF SaidAt
    <3>4. task'[p] \in Reporting => MaySay(p, Message(p))'
      BY <3>1, <3>2, <1>1, Messages DEF MaySay
    <3> QED  BY <3>1, <3>3, <3>4 DEF HandAt, Kinds
  <2>2. CASE ReportSent(p) \/ ReportStored(p)
    <3>1. /\ task[p] \in Reporting
          /\ task'[p] = IF task[p] = "success" /\ VisionLoaded THEN "gate" ELSE "over"
          /\ step'[p] \in {"none", "queued"}
      BY <2>2, <1>1 DEF ReportSent, ReportStored, Reported, Await, TypeOK
    <3>2. task[p] = "success" => Said(p)' = {"SUCCESS"}
      <4>1. CASE ReportSent(p) /\ task[p] = "success"
        <5>1. Message(p) = "SUCCESS" /\ "SUCCESS" \in Kinds /\ MaySay(p, "SUCCESS")
          BY <4>1, <1>1, Messages DEF ReportSent, HandAt, Kinds
        <5>2. Said(p)' = Said(p) \cup {"SUCCESS"}
          BY <4>1, <5>1, OneMoreSaid DEF ReportSent
        <5> QED  BY <5>1, <5>2 DEF MaySay
      <4>2. CASE ReportStored(p) /\ task[p] = "success"
        BY <4>2, <1>1, <1>2, <1>4 DEF ReportStored, SaidAt
      <4> QED  BY <2>2, <4>1, <4>2
    <3>3. SaidAt(p)'
      BY <3>1, <3>2 DEF SaidAt
    <3> QED  BY <3>1, <3>3 DEF HandAt, Kinds
  <2>3. CASE StoreReport(p) \/ ReportRaises(p)
    <3>1. /\ UNCHANGED <<reports, blocked>> /\ task[p] \in Reporting /\ step[p] # "ok"
          /\ \/ task'[p] = task[p] /\ step'[p] = "queued"
             \/ task'[p] = "over" /\ step'[p] = "none"
      BY <2>3, <1>1 DEF StoreReport, ReportRaises, Await, TypeOK
    <3>2. task'[p] \in Reporting => MaySay(p, Message(p))'
      <4>1. MaySay(p, Message(p)) /\ (task'[p] = task[p] => Message(p)' = Message(p))
        BY <3>1, <1>1, Messages DEF HandAt
      <4> QED  BY <3>1, <4>1, <1>1, <1>2, <1>4, StillMaySay
    <3>3. SaidAt(p)'
      BY <3>1 DEF SaidAt
    <3> QED  BY <3>1, <3>2, <3>3 DEF HandAt, Kinds
  <2>4. CASE GateReturns(p) \/ DetectionReturns(p)
    <3>1. /\ task[p] \in Offloaded /\ UNCHANGED reports
          /\ task'[p] \in {"predict", "overlay", "verdict", "over"}
          /\ step'[p] = IF task'[p] \in Offloaded THEN "queued" ELSE "none"
          /\ task'[p] = "verdict" => p \in blocked' \/ scoreOf[p] = p
      BY <2>4, <1>1 DEF GateReturns, DetectionReturns, Await, TypeOK, Now, OwnScore
    <3>2. Said(p)' = {"SUCCESS"} /\ VisionLoaded /\ p \in uploaded
      BY <3>1, <1>1, <1>2, <1>4 DEF SaidAt, Now, RightPlace, GoesOnWithPicture, AfterUpload
    <3>3. SaidAt(p)'
      BY <3>1, <3>2 DEF SaidAt
    <3>4. task'[p] = "verdict" => MaySay(p, Message(p))'
      BY <3>1, <3>2, <1>1, Messages DEF MaySay
    <3> QED  BY <3>1, <3>3, <3>4 DEF HandAt, Kinds
  <2> QED  BY <2>1, <2>2, <2>3, <2>4 DEF Coroutine
<1> QED  BY <1>3, <1>4

LEMMA HandStep == Now /\ [Next]_vars => SaidSoFar' /\ ReportInHand'
<1> SUFFICES ASSUME Now, [Next]_vars, NEW q \in Pictures PROVE SaidAt(q)' /\ HandAt(q)'
  BY DEF SaidSoFar, ReportInHand
<1> USE PicturesAssumption DEF cameraVars, taskVars, modelVars, resultVars
<1>1. TypeOK /\ SaidAt(q) /\ HandAt(q)
  BY DEF Now, SaidSoFar, ReportInHand
<1>2. UNCHANGED reports => Said(q)' = Said(q)
  BY SaidAgain
<1>3. CASE UNCHANGED <<task, step, uploaded, blocked, scoreOf, reports>>
  BY <1>1, <1>2, <1>3, OthersKeep
<1>4. ASSUME NEW t \in Threads, LockWaitEnds(t) \/ SensorReturns(t)
      PROVE  UNCHANGED <<task, step, uploaded, blocked, scoreOf, reports>>
  BY <1>4 DEF LockWaitEnds, SensorReturns
<1>5. CASE ReceiveEnds \/ CallStop \/ ThreadsJoined \/ UNCHANGED vars
  BY <1>3, <1>5 DEF ReceiveEnds, CallStop, ThreadsJoined, vars
<1>6. CASE WorkerTakes
  <2>1. /\ UNCHANGED <<task, uploaded, blocked, scoreOf, reports>>
        /\ step'[q] = step[q] \/ (step[q] = "queued" /\ step'[q] = Begins(q))
    BY <1>1, <1>6, QueueTypes DEF WorkerTakes, TypeOK
  <2>2. CASE step'[q] = step[q]
    BY <2>1, <2>2, <1>1, <1>2, OthersKeep
  <2>3. CASE step[q] = "queued" /\ step'[q] = Begins(q)
    <3>1. \A k : MaySay(q, k) => MaySay(q, k)'
      BY <2>1, <1>2, StillMaySay
    <3>2. task[q] \in Reporting => Begins(q) = Message(q) /\ Message(q)' = Message(q)
      BY <2>1, Messages DEF Begins
    <3>3. task[q] \notin Reporting => Begins(q) \in {"busy", "modelWait"}
      BY DEF Begins
    <3>4. SaidAt(q)'
      BY <2>1, <2>3, <3>2, <3>3, <1>1, <1>2, Messages DEF SaidAt, Kinds
    <3>5. HandAt(q)'
      BY <2>1, <2>3, <3>1, <3>2, <3>3, <1>1, Messages DEF HandAt, Kinds
    <3> QED  BY <3>4, <3>5
  <2> QED  BY <2>1, <2>2, <2>3
<1>7. ASSUME NEW p \in Pictures, Ask(p) PROVE SaidAt(q)' /\ HandAt(q)'
  <2>1. /\ UNCHANGED <<step, uploaded, blocked, scoreOf, reports>>
        /\ task'[q] = task[q] \/ (task[q] = "idle" /\ task'[q] = "capture")
    BY <1>1, <1>7 DEF Ask, TypeOK
  <2>2. CASE task[q] = "idle" /\ task'[q] = "capture"
    BY <2>1, <2>2, <1>1, <1>2 DEF SaidAt, HandAt, Kinds
  <2> QED  BY <2>1, <2>2, <1>1, <1>2, OthersKeep
<1>8. CASE Cancels
  <2>1. PICK over \in SUBSET Pictures : Cancelled(over)
    BY <1>8, CancelShape
  <2>2. UNCHANGED <<uploaded, blocked, scoreOf, reports>>
    BY <2>1 DEF Cancelled
  <2>3. CASE q \notin over
    <3>1. task'[q] = task[q] /\ step'[q] = step[q]
      BY <2>1, <2>3, <1>1, CancelledPlaces
    <3> QED  BY <2>2, <3>1, <1>1, <1>2, OthersKeep
  <2>4. CASE q \in over
    <3>1. task'[q] = "over" /\ step'[q] \in {"none", step[q]}
      BY <2>1, <2>4, <1>1, CancelledPlaces
    <3>2. task[q] \in Active
      BY <2>1, <2>4 DEF Cancelled
    <3>3. \A k : MaySay(q, k) => MaySay(q, k)'
      BY <2>2, <1>2, StillMaySay
    <3>4. SaidAt(q)'
      BY <3>1 DEF SaidAt
    <3>5. HandAt(q)'
      BY <3>1, <3>2, <3>3, <1>1 DEF HandAt, Kinds
    <3> QED  BY <3>4, <3>5
  <2> QED  BY <2>3, <2>4
<1> QED
  BY <1>3, <1>4, <1>5, <1>6, <1>7, <1>8, JobKeepsHands, CoroutineKeepsHands
     DEF Next, Progress, Cancels

(* Storage only grows, and a score comes from the picture's own frame. *)
LEMMA UploadsAndScores ==
    ASSUME TypeOK, OwnTensor, [Next]_vars
    PROVE  /\ uploaded \subseteq uploaded'
           /\ \A q \in Pictures : scoreOf'[q] \in {scoreOf[q], q}
<1> USE PicturesAssumption DEF cameraVars, taskVars, modelVars, resultVars
<1>1. ASSUME NEW p \in Pictures, UploadEnds(p)
      PROVE  uploaded \subseteq uploaded' /\ UNCHANGED scoreOf
  BY <1>1 DEF UploadEnds
<1>2. ASSUME NEW p \in Pictures, ModelReturns(p)
      PROVE  UNCHANGED uploaded /\ \A q \in Pictures : scoreOf'[q] \in {scoreOf[q], q}
  BY <1>2 DEF ModelReturns, OwnTensor, TypeOK
<1>3. ASSUME NEW p \in Pictures, Job(p), ~UploadEnds(p), ~ModelReturns(p)
      PROVE  UNCHANGED <<uploaded, scoreOf>>
  BY <1>3 DEF Job, StepEnds, InsertEnds, ModelCalled
<1>4. ASSUME NEW p \in Pictures, Coroutine(p) PROVE UNCHANGED <<uploaded, scoreOf>>
  BY <1>4 DEF Coroutine, CaptureReturns, CaptureTimesOut, ReportSent, ReportStored, Reported,
              StoreReport, ReportRaises, GateReturns, DetectionReturns
<1>5. ASSUME NEW p \in Pictures, Ask(p) PROVE UNCHANGED <<uploaded, scoreOf>>
  BY <1>5 DEF Ask
<1>6. ASSUME NEW t \in Threads, LockWaitEnds(t) \/ SensorReturns(t)
      PROVE  UNCHANGED <<uploaded, scoreOf>>
  BY <1>6 DEF LockWaitEnds, SensorReturns
<1>7. WorkerTakes \/ Cancels \/ ReceiveEnds \/ CallStop \/ ThreadsJoined \/ UNCHANGED vars
        => UNCHANGED <<uploaded, scoreOf>>
  BY DEF WorkerTakes, Cancels, Stop, CancelAgain, CancelAll, Cancel, ReceiveEnds, CallStop,
         ThreadsJoined, vars
<1> QED
  BY <1>1, <1>2, <1>3, <1>4, <1>5, <1>6, <1>7
     DEF Next, Progress, Cancels

(* What was true when it was said stays true. *)
LEMMA TruthStep ==
    /\ TypeOK /\ ReportInHand /\ OwnTensor /\ [Next]_vars
    /\ AnnouncedIsStored /\ OneStory /\ ScoredOwnFrame
    => AnnouncedIsStored' /\ OneStory' /\ ScoredOwnFrame'
<1> SUFFICES ASSUME TypeOK, ReportInHand, OwnTensor, [Next]_vars,
                    AnnouncedIsStored, OneStory, ScoredOwnFrame
             PROVE  AnnouncedIsStored' /\ OneStory' /\ ScoredOwnFrame'
  OBVIOUS
<1> USE PicturesAssumption DEF AnnouncedIsStored, OneStory, ScoredOwnFrame, Kinds
<1>1. ASSUME NEW p \in Pictures, NEW k \in Kinds, OneTrueReport(p, k)
      PROVE  AnnouncedIsStored' /\ OneStory' /\ ScoredOwnFrame'
  <2>1. /\ Said(p)' = Said(p) \cup {k}
        /\ \A q \in Pictures \ {p} : Said(q)' = Said(q)
        /\ MaySay(p, k) /\ UNCHANGED <<uploaded, scoreOf>>
    BY <1>1, OneMoreSaid DEF OneTrueReport
  <2>2. AnnouncedIsStored'
    BY <2>1 DEF MaySay
  <2>3. OneStory'
    BY <2>1 DEF MaySay
  <2>4. ScoredOwnFrame'
    BY <2>1 DEF MaySay
  <2> QED  BY <2>2, <2>3, <2>4
<1>2. CASE UNCHANGED reports
  <2>1. \A q \in Pictures : Said(q)' = Said(q)
    BY <1>2, SaidAgain
  <2>2. uploaded \subseteq uploaded' /\ \A q \in Pictures : scoreOf'[q] \in {scoreOf[q], q}
    BY UploadsAndScores
  <2> QED  BY <2>1, <2>2
<1> QED  BY <1>1, <1>2, OnlyTrueReports

-------------------------------------------------------------------------------
(* The interpreter. *)

LEMMA ScoreStep ==
    /\ TypeOK /\ OwnTensor /\ OwnScore /\ [Next]_vars
    => OwnTensor' /\ OwnScore'
<1> SUFFICES ASSUME TypeOK, OwnTensor, OwnScore, [Next]_vars
             PROVE  OwnTensor' /\ OwnScore'
  OBVIOUS
<1> USE PicturesAssumption, CameraAssumption
    DEF cameraVars, taskVars, modelVars, resultVars, OwnTensor, OwnScore, Kinds
<1>1. ASSUME NEW t \in Threads, LockWaitEnds(t) \/ SensorReturns(t)
      PROVE  OwnTensor' /\ OwnScore'
  BY <1>1 DEF LockWaitEnds, SensorReturns
<1>2. ASSUME NEW p \in Pictures, Job(p)
      PROVE  OwnTensor' /\ OwnScore'
  <2>1. CASE UploadEnds(p)
    BY <2>1 DEF UploadEnds
  <2>2. CASE StepEnds(p) \/ InsertEnds(p)
    BY <2>2 DEF StepEnds, InsertEnds, Outcomes, TypeOK
  <2>3. CASE ModelCalled(p)
    BY <2>3 DEF ModelCalled, TypeOK
  <2>4. CASE ModelReturns(p)
    <3>1. tensor = p /\ \A q \in Pictures : step[q] = "invoke" => q = p
      BY <2>4 DEF ModelReturns
    <3>2. step' = [step EXCEPT ![p] = "ok"] \/ step' = [step EXCEPT ![p] = "error"]
      BY <2>4 DEF ModelReturns
    <3>3. scoreOf' = [scoreOf EXCEPT ![p] = p] \/ (scoreOf' = scoreOf /\ step'[p] = "error")
      BY <2>4, <3>1 DEF ModelReturns, TypeOK
    <3>4. UNCHANGED task
      BY <2>4 DEF ModelReturns
    <3> QED  BY <3>1, <3>2, <3>3, <3>4 DEF TypeOK
  <2> QED  BY <1>2, <2>1, <2>2, <2>3, <2>4 DEF Job
<1>3. ASSUME NEW p \in Pictures, Coroutine(p)
      PROVE  OwnTensor' /\ OwnScore'
  <2>1. CASE CaptureReturns(p)
    <3>1. \E stage \in {"success", "failure", "over"} :
             /\ task' = [task EXCEPT ![p] = stage] /\ step' = [step EXCEPT ![p] = "none"]
      BY <2>1 DEF CaptureReturns, GiveUp, Await
    <3>2. UNCHANGED modelVars
      BY <2>1 DEF CaptureReturns
    <3> QED  BY <3>1, <3>2 DEF TypeOK
  <2>2. CASE CaptureTimesOut(p)
    BY <2>2 DEF CaptureTimesOut, TypeOK
  <2>3. CASE ReportSent(p) \/ ReportStored(p)
    BY <2>3 DEF ReportSent, ReportStored, Reported, Await, TypeOK
  <2>4. CASE StoreReport(p) \/ ReportRaises(p)
    BY <2>4 DEF StoreReport, ReportRaises, Await, TypeOK
  <2>5. CASE GateReturns(p) \/ DetectionReturns(p)
    BY <2>5 DEF GateReturns, DetectionReturns, Await, TypeOK
  <2> QED  BY <1>3, <2>1, <2>2, <2>3, <2>4, <2>5 DEF Coroutine
<1>4. CASE WorkerTakes
  BY <1>4, QueueTypes, Messages DEF WorkerTakes, Begins, TypeOK
<1>5. ASSUME NEW p \in Pictures, Ask(p)
      PROVE  OwnTensor' /\ OwnScore'
  BY <1>5 DEF Ask, TypeOK
<1>6. CASE Cancels
  <2>1. PICK over \in SUBSET Pictures : Cancelled(over)
    BY <1>6, CancelShape
  <2> QED  BY <2>1, CancelledPlaces DEF Cancelled
<1>7. CASE ReceiveEnds \/ CallStop \/ ThreadsJoined \/ UNCHANGED vars
  BY <1>7 DEF ReceiveEnds, CallStop, ThreadsJoined, vars
<1> QED
  BY <1>1, <1>2, <1>3, <1>4, <1>5, <1>6, <1>7
     DEF Next, Progress, Cancels

-------------------------------------------------------------------------------
(* Who may be where, and what is left once the tasks are cancelled. *)

LEMMA PlaceStep == TypeOK /\ RightPlace /\ [Next]_vars => RightPlace'
<1> SUFFICES ASSUME TypeOK, RightPlace, [Next]_vars PROVE RightPlace'
  OBVIOUS
<1> USE PicturesAssumption
    DEF cameraVars, taskVars, modelVars, resultVars, RightPlace, TypeOK
<1>1. ASSUME NEW p \in Pictures, Coroutine(p) PROVE RightPlace'
  <2>1. CASE CaptureReturns(p) \/ CaptureTimesOut(p)
    BY <2>1 DEF CaptureReturns, CaptureTimesOut, GiveUp, Await
  <2>2. CASE ReportSent(p) \/ ReportStored(p)
    BY <2>2 DEF ReportSent, ReportStored, Reported, Await
  <2>3. CASE StoreReport(p) \/ ReportRaises(p)
    BY <2>3 DEF StoreReport, ReportRaises, Await
  <2>4. CASE GateReturns(p) \/ DetectionReturns(p)
    BY <2>4 DEF GateReturns, DetectionReturns, Await
  <2> QED  BY <1>1, <2>1, <2>2, <2>3, <2>4 DEF Coroutine
<1>2. ASSUME NEW p \in Pictures, Ask(p) PROVE RightPlace'
  BY <1>2 DEF Ask
<1>3. CASE Cancels
  <2>1. PICK over \in SUBSET Pictures : Cancelled(over)
    BY <1>3, CancelShape
  <2> QED  BY <2>1, CancelledPlaces
<1>4. CASE UNCHANGED task
  BY <1>4
<1>5. ASSUME NEW p \in Pictures, Job(p) PROVE UNCHANGED task
  BY <1>5 DEF Job, UploadEnds, StepEnds, InsertEnds, ModelCalled, ModelReturns
<1>6. ASSUME NEW t \in Threads, LockWaitEnds(t) \/ SensorReturns(t) PROVE UNCHANGED task
  BY <1>6 DEF LockWaitEnds, SensorReturns
<1>7. WorkerTakes \/ ReceiveEnds \/ CallStop \/ ThreadsJoined \/ UNCHANGED vars => UNCHANGED task
  BY DEF WorkerTakes, ReceiveEnds, CallStop, ThreadsJoined, vars
<1> QED
  BY <1>1, <1>2, <1>3, <1>4, <1>5, <1>6, <1>7
     DEF Next, Progress, Cancels

(* A step of the picture p leaves the others where they are. *)
LEMMA OneGoesOn ==
    ASSUME TypeOK, AwaitedByALoop, NEW p \in Pictures,
           at'[p] = "queued" => task'[p] = "capture",
           step'[p] = "queued" => task'[p] \in Reporting \cup Offloaded,
           task'[p] \in Active => /\ LoopOf(p) \in loops
                                  /\ \A q \in Pictures :
                                        LoopOf(q) = LoopOf(p) /\ task[q] \in Active => q = p,
           \A q \in Pictures \ {p} : at'[q] = at[q] /\ step'[q] = step[q] /\ task'[q] = task[q],
           \/ loops' = loops
           \/ loops' = loops \ {LoopOf(p)} /\ task[p] \in Active /\ task'[p] \notin Active
    PROVE  AwaitedByALoop'
<1>1. SUFFICES ASSUME NEW q \in Pictures
               PROVE  /\ at'[q] = "queued" => task'[q] = "capture"
                      /\ step'[q] = "queued" => task'[q] \in Reporting \cup Offloaded
                      /\ task'[q] \in Active =>
                            /\ LoopOf(q) \in loops'
                            /\ \A r \in Pictures :
                                  LoopOf(r) = LoopOf(q) /\ task'[r] \in Active => r = q
  BY DEF AwaitedByALoop, LoopOf
<1>2. CASE q = p
  BY <1>2 DEF AwaitedByALoop
<1>3. CASE q # p
  BY <1>3 DEF AwaitedByALoop
<1> QED  BY <1>2, <1>3

LEMMA CoroutineIsAwaited ==
    ASSUME TypeOK, AwaitedByALoop, ReportInHand, NEW p \in Pictures, Coroutine(p)
    PROVE  AwaitedByALoop'
<1> USE PicturesAssumption DEF cameraVars, taskVars, modelVars, resultVars
<1>1. /\ task[p] \in Active
      /\ LoopOf(p) \in loops
      /\ \A q \in Pictures : LoopOf(q) = LoopOf(p) /\ task[q] \in Active => q = p
  BY DEF Coroutine, CaptureReturns, CaptureTimesOut, ReportSent, ReportStored, Reported,
         StoreReport, ReportRaises, GateReturns, DetectionReturns, AwaitedByALoop
<1>2. \A q \in Pictures \ {p} : at'[q] = at[q] /\ step'[q] = step[q] /\ task'[q] = task[q]
  BY DEF Coroutine, CaptureReturns, GiveUp, CaptureTimesOut, ReportSent, ReportStored, Reported,
         StoreReport, ReportRaises, GateReturns, DetectionReturns, Await, TypeOK
<1>3. CASE CaptureTimesOut(p)
  <2>1. step[p] = "none" /\ UNCHANGED <<step, loops>>
    BY <1>3 DEF CaptureTimesOut, ReportInHand, HandAt
  <2>2. at'[p] # "queued"
    BY <1>3 DEF CaptureTimesOut, TypeOK
  <2> QED  BY <1>1, <1>2, <2>1, <2>2, OneGoesOn
<1>4. CASE StoreReport(p)
  <2>1. task[p] \in Reporting /\ UNCHANGED <<task, at, loops>>
    BY <1>4 DEF StoreReport
  <2>2. at[p] # "queued"
    BY <2>1 DEF AwaitedByALoop
  <2> QED  BY <1>1, <1>2, <2>1, <2>2, OneGoesOn
<1>5. CASE ~CaptureTimesOut(p) /\ ~StoreReport(p)
  <2>1. /\ \E stage \in {"over"} \cup Active : Await(p, stage)
        /\ at' = at /\ (task[p] = "capture" => at[p] # "queued")
    BY <1>5 DEF Coroutine, CaptureReturns, GiveUp, ReportSent, ReportStored, Reported,
                ReportRaises, GateReturns, DetectionReturns
  <2>2. /\ step'[p] = "queued" => task'[p] \in Offloaded
        /\ at'[p] # "queued"
    BY <2>1 DEF Await, TypeOK, AwaitedByALoop
  <2>3. \/ loops' = loops
        \/ loops' = loops \ {LoopOf(p)} /\ task'[p] \notin Active
    <3>1. CASE ReportRaises(p)
      <4>1. p \in Periodic => LoopOf(p) = "vision"
        BY DEF LoopOf
      <4> QED  BY <3>1, <4>1 DEF ReportRaises, Await, TypeOK
    <3>2. CASE ~ReportRaises(p)
      BY <1>5, <3>2 DEF Coroutine, CaptureReturns, ReportSent, ReportStored, Reported,
                        GateReturns, DetectionReturns
    <3> QED  BY <3>1, <3>2
  <2> QED  BY <1>1, <1>2, <2>2, <2>3, OneGoesOn
<1> QED  BY <1>3, <1>4, <1>5

LEMMA AwaitedStep ==
    /\ TypeOK /\ CallsBegin /\ ReportInHand /\ AwaitedByALoop /\ [Next]_vars
    => AwaitedByALoop'
<1> SUFFICES ASSUME TypeOK, CallsBegin, ReportInHand, AwaitedByALoop, [Next]_vars
             PROVE  AwaitedByALoop'
  OBVIOUS
<1> USE PicturesAssumption DEF cameraVars, taskVars, modelVars, resultVars
<1>1. ASSUME \A p \in Pictures : /\ at'[p] = at[p] \/ at'[p] # "queued"
                                 /\ step'[p] = step[p] \/ step'[p] # "queued",
             task' = task, loops' = loops
      PROVE  AwaitedByALoop'
  <2>1. ASSUME NEW p \in Pictures
        PROVE  /\ at'[p] = "queued" => task'[p] = "capture"
               /\ step'[p] = "queued" => task'[p] \in Reporting \cup Offloaded
    BY <1>1 DEF AwaitedByALoop
  <2>2. ASSUME NEW p \in Pictures, task'[p] \in Active
        PROVE  /\ LoopOf(p) \in loops'
               /\ \A q \in Pictures :
                     LoopOf(q) = LoopOf(p) /\ task'[q] \in Active => q = p
    BY <1>1, <2>2 DEF AwaitedByALoop
  <2> QED  BY <2>1, <2>2 DEF AwaitedByALoop
<1>2. CASE Cancels
  <2>1. PICK over \in SUBSET Pictures : Cancelled(over)
    BY <1>2, CancelShape
  <2>2. \A p \in over : at'[p] # "queued" /\ step'[p] # "queued" /\ task'[p] = "over"
    BY <2>1, CancelledPlaces
  <2>3. \A p \in Pictures \ over : at'[p] = at[p] /\ step'[p] = step[p] /\ task'[p] = task[p]
    BY <2>1, CancelledPlaces
  <2>4. \A p \in Pictures \ over : task[p] \in Active => LoopOf(p) \in loops'
    BY <2>1 DEF Cancelled, AwaitedByALoop
  <2> QED  BY <2>2, <2>3, <2>4 DEF AwaitedByALoop, LoopOf
<1>3. CASE ReceiveEnds
  <2>1. /\ UNCHANGED <<task, at, step>> /\ loops' = loops \ {"receive"}
        /\ \A p \in Pictures : task[p] \in Active => LoopOf(p) # "receive"
    BY <1>3 DEF ReceiveEnds, LoopOf
  <2> QED  BY <2>1 DEF AwaitedByALoop, LoopOf
<1>4. CASE WorkerTakes
  <2>1. \A p \in Pictures : Begins(p) # "queued"
    BY Messages DEF Begins, Kinds
  <2>2. UNCHANGED <<task, loops>>
    BY <1>4 DEF WorkerTakes
  <2>3. \A p \in Pictures : /\ at'[p] = at[p] \/ at'[p] # "queued"
                            /\ step'[p] = step[p] \/ step'[p] # "queued"
    BY <1>4, <2>1, QueueTypes DEF WorkerTakes, TypeOK
  <2> QED  BY <1>1, <2>2, <2>3
<1>5. ASSUME NEW p \in Pictures, Ask(p) PROVE AwaitedByALoop'
  <2>1. /\ task[p] = "idle" /\ task'[p] = "capture" /\ LoopOf(p) \in loops
        /\ \A q \in Pictures : LoopOf(q) = LoopOf(p) => task[q] \notin Active
        /\ \A q \in Pictures \ {p} : at'[q] = at[q] /\ task'[q] = task[q]
        /\ UNCHANGED <<step, loops>>
    BY <1>5 DEF Ask, Go, TypeOK
  <2>2. step'[p] # "queued"
    BY <2>1 DEF AwaitedByALoop
  <2> QED  BY <2>1, <2>2, OneGoesOn
<1>6. ASSUME NEW p \in Pictures, Job(p) PROVE AwaitedByALoop'
  <2>1. UNCHANGED <<task, loops>>
    BY <1>6 DEF Job, UploadEnds, StepEnds, InsertEnds, ModelCalled, ModelReturns
  <2>2. \A q \in Pictures : /\ at'[q] = at[q] \/ at'[q] # "queued"
                            /\ step'[q] = step[q] \/ step'[q] # "queued"
    BY <1>6 DEF Job, UploadEnds, StepEnds, Outcomes, InsertEnds, ModelCalled, ModelReturns,
                Go, TypeOK
  <2> QED  BY <1>1, <2>1, <2>2
<1>7. ASSUME NEW t \in Threads, LockWaitEnds(t) \/ SensorReturns(t) PROVE AwaitedByALoop'
  <2>1. UNCHANGED <<task, step, loops>>
    BY <1>7 DEF LockWaitEnds, SensorReturns
  <2>2. \A q \in Pictures : at'[q] = at[q] \/ at'[q] # "queued"
    BY <1>7, CallsNotQueued DEF LockWaitEnds, SensorReturns
  <2> QED  BY <1>1, <2>1, <2>2
<1>8. CASE CallStop \/ ThreadsJoined
  <2>1. UNCHANGED <<task, step, loops>>
    BY <1>8 DEF CallStop, ThreadsJoined
  <2>2. \A q \in Pictures : at'[q] = at[q]
    BY <1>8 DEF CallStop, ThreadsJoined, Go, TypeOK
  <2> QED  BY <1>1, <2>1, <2>2
<1>9. CASE UNCHANGED vars
  BY <1>1, <1>9 DEF vars
<1> QED
  BY <1>2, <1>3, <1>4, <1>5, <1>6, <1>7, <1>8, <1>9, CoroutineIsAwaited
     DEF Next, Progress, Cancels

-------------------------------------------------------------------------------
LEMMA InitInv == Init => IInv
<1> SUFFICES ASSUME Init PROVE IInv
  OBVIOUS
<1> USE PicturesAssumption, CameraAssumption DEF Init
<1>1. TypeOK
  BY QueueTypes, EmptySeq DEF TypeOK
<1>2. SensorSafe /\ CallsBegin
  BY DEF SensorSafe, CallsBegin
<1>3. \A p \in Pictures : Said(p) = {}
  BY DEF Said
<1>4. AnnouncedIsStored /\ OneStory /\ ScoredOwnFrame
  BY <1>3 DEF AnnouncedIsStored, OneStory, ScoredOwnFrame
<1>5. GoesOnWithPicture /\ OwnTensor /\ OwnScore
  BY DEF GoesOnWithPicture, AfterUpload, OwnTensor, OwnScore
<1>6. SaidSoFar /\ ReportInHand
  BY <1>3 DEF SaidSoFar, SaidAt, ReportInHand, HandAt, Kinds
<1>7. RightPlace /\ AwaitedByALoop
  BY DEF RightPlace, AwaitedByALoop
<1> QED  BY <1>1, <1>2, <1>4, <1>5, <1>6, <1>7 DEF IInv

(* The inductive invariant holds in every reachable state. *)
THEOREM PicturesInvariance == Spec => []IInv
<1>1. IInv /\ [Next]_vars => IInv'
  BY TypeStep, SensorStep, StorageStep, HandStep, TruthStep, ScoreStep, PlaceStep,
     AwaitedStep
     DEF IInv, Now
<1> QED  BY InitInv, <1>1, PTL DEF Spec

(* Every variable keeps its type: no task, job or thread gets into a place *)
(* that the code does not have, and every report is one of the protocol's. *)
THEOREM PicturesTypeCorrect == Spec => []TypeOK
<1>1. IInv => TypeOK
  BY DEF IInv
<1> QED  BY PicturesInvariance, <1>1, PTL

(* However many threads want it, the sensor of camera_manager.py is driven *)
(* by one at a time, never opened twice and never read while closed.       *)
THEOREM OneThreadInSensor == Spec => []SensorSafe
<1>1. IInv => SensorSafe
  BY DEF IInv
<1> QED  BY PicturesInvariance, <1>1, PTL

(* capture.py announces, and vision.py judges, stored pictures only.       *)
THEOREM AnnouncedPicturesExist == Spec => []AnnouncedIsStored
<1>1. IInv => AnnouncedIsStored
  BY DEF IInv
<1> QED  BY PicturesInvariance, <1>1, PTL

(* One answer for each picture and at most one judgement, whenever the     *)
(* timeouts fire and whatever the abandoned threads do.                    *)
THEOREM OneStoryEach == Spec => []OneStory
<1>1. IInv => OneStory
  BY DEF IInv
<1> QED  BY PicturesInvariance, <1>1, PTL

(* The lock of DirtDetector keeps the frames of two callers apart.         *)
THEOREM ScoresAreOwn == Spec => []ScoredOwnFrame
<1>1. IInv => ScoredOwnFrame
  BY DEF IInv
<1> QED  BY PicturesInvariance, <1>1, PTL

-------------------------------------------------------------------------------
(* The end of the gateway. *)

(* A camera call or a job that runs may end; none is put back to its start. *)
LEMMA CallsGoOn ==
    ASSUME TypeOK, NEW t \in Threads, LockAwaited(t) \/ SensorAnswers(t)
    PROVE  \A p \in Pictures : ShotRuns(p)' => ShotRuns(p)
<1> USE PicturesAssumption DEF TypeOK, Go, ShotRuns
<1>1. CASE LockAwaited(t)
  BY <1>1 DEF LockAwaited, StartCalled, ReadCalled, StopCalled, LockTimesOut
<1>2. CASE SensorAnswers(t)
  BY <1>2 DEF SensorAnswers, Started, StartFails, ReadEnds, StopEnds
<1> QED  BY <1>1, <1>2

(* Everything that begins a job is awaited by a loop that is left. *)
LEMMA JobsOfTheDeaf ==
    ASSUME IInv, Next
    PROVE  /\ \A p \in Pictures : ShotRuns(p)' => ShotRuns(p) \/ LoopOf(p) \in loops
           /\ \A p \in Pictures : StepRuns(p)' => StepRuns(p) \/ LoopOf(p) \in loops
<1> USE PicturesAssumption
    DEF cameraVars, taskVars, modelVars, resultVars, ShotRuns, StepRuns
<1> DEFINE Good == /\ \A p \in Pictures : ShotRuns(p)' => ShotRuns(p) \/ LoopOf(p) \in loops
                   /\ \A p \in Pictures : StepRuns(p)' => StepRuns(p) \/ LoopOf(p) \in loops
<1>1. TypeOK /\ AwaitedByALoop /\ ReportInHand
  BY DEF IInv
<1>2. ASSUME NEW p \in Pictures, Job(p) PROVE Good
  <2>1. CASE UploadEnds(p)
    BY <2>1, <1>1 DEF UploadEnds, Go, TypeOK
  <2>2. CASE StepEnds(p)
    BY <2>2, <1>1 DEF StepEnds, Outcomes, Kinds, TypeOK
  <2>3. CASE InsertEnds(p)
    BY <2>3, <1>1 DEF InsertEnds, Kinds, TypeOK
  <2>4. CASE ModelCalled(p) \/ ModelReturns(p)
    BY <2>4, <1>1 DEF ModelCalled, ModelReturns, Kinds, TypeOK
  <2> QED  BY <1>2, <2>1, <2>2, <2>3, <2>4 DEF Job
<1>3. ASSUME NEW p \in Pictures, Coroutine(p) PROVE Good
  <2>1. LoopOf(p) \in loops
    BY <1>1, <1>3 DEF AwaitedByALoop, Coroutine, CaptureReturns, CaptureTimesOut, ReportSent,
       ReportStored, Reported, StoreReport, ReportRaises, GateReturns, DetectionReturns
  <2>2. \A q \in Pictures \ {p} : at'[q] = at[q] /\ step'[q] = step[q]
    BY <1>1, <1>3 DEF TypeOK, Coroutine, CaptureReturns, GiveUp, CaptureTimesOut, ReportSent,
       ReportStored, Reported, StoreReport, ReportRaises, GateReturns, DetectionReturns, Await
  <2> QED  BY <2>1, <2>2
<1>4. CASE WorkerTakes
  <2>1. \A p \in Pictures : /\ at'[p] = at[p] \/ at[p] = "queued"
                            /\ step'[p] = step[p] \/ step[p] = "queued"
    BY <1>4, <1>1, QueueTypes DEF WorkerTakes, TypeOK
  <2>2. \A p \in Pictures : at[p] = "queued" \/ step[p] = "queued" => LoopOf(p) \in loops
    BY <1>1 DEF AwaitedByALoop
  <2> QED  BY <2>1, <2>2
<1>5. ASSUME NEW p \in Pictures, Ask(p) PROVE Good
  BY <1>1, <1>5 DEF Ask, Go, TypeOK
<1>6. ASSUME NEW t \in Threads, LockWaitEnds(t) \/ SensorReturns(t) PROVE Good
  BY <1>1, <1>6, CallsGoOn DEF LockWaitEnds, SensorReturns
<1>7. CASE Cancels
  <2>1. PICK over \in SUBSET Pictures : Cancelled(over)
    BY <1>7, CancelShape
  <2>2. \A p \in Pictures : at'[p] \in {at[p], "none"} /\ step'[p] \in {step[p], "none"}
    BY <1>1, <2>1, CancelledPlaces
  <2> QED  BY <2>2 DEF Kinds
<1>8. CASE ReceiveEnds \/ CallStop \/ ThreadsJoined
  BY <1>1, <1>8 DEF ReceiveEnds, CallStop, ThreadsJoined, Go, TypeOK
<1> QED
  BY <1>2, <1>3, <1>4, <1>5, <1>6, <1>7, <1>8 DEF Next, Progress, Cancels

(* A report comes from an INSERT under way, or from a loop that is left. *)
LEMMA ReportsOfTheDeaf ==
    ASSUME IInv, Next, NEW report \in reports' \ reports
    PROVE  LoopOf(report[1]) \in loops \/ report[2] = step[report[1]]
<1> USE PicturesAssumption DEF cameraVars, taskVars, modelVars, resultVars
<1>1. ASSUME NEW p \in Pictures, ReportSent(p)
      PROVE  LoopOf(report[1]) \in loops
  BY <1>1 DEF ReportSent, IInv, AwaitedByALoop
<1>2. ASSUME NEW p \in Pictures, InsertEnds(p)
      PROVE  report[2] = step[report[1]]
  BY <1>2 DEF InsertEnds
<1>3. ASSUME NEW p \in Pictures, Coroutine(p), ~ReportSent(p) PROVE UNCHANGED reports
  BY <1>3 DEF Coroutine, CaptureReturns, CaptureTimesOut, ReportStored, StoreReport,
              ReportRaises, GateReturns, DetectionReturns
<1>4. ASSUME NEW p \in Pictures, Job(p), ~InsertEnds(p) PROVE UNCHANGED reports
  BY <1>4 DEF Job, UploadEnds, StepEnds, ModelCalled, ModelReturns
<1>5. ASSUME NEW p \in Pictures, Ask(p) PROVE UNCHANGED reports
  BY <1>5 DEF Ask
<1>6. ASSUME NEW t \in Threads, LockWaitEnds(t) \/ SensorReturns(t) PROVE UNCHANGED reports
  BY <1>6 DEF LockWaitEnds, SensorReturns
<1>7. WorkerTakes \/ Cancels \/ ReceiveEnds \/ CallStop \/ ThreadsJoined => UNCHANGED reports
  BY DEF WorkerTakes, Cancels, Stop, CancelAgain, CancelAll, Cancel, ReceiveEnds, CallStop,
         ThreadsJoined
<1> QED
  BY <1>1, <1>2, <1>3, <1>4, <1>5, <1>6, <1>7 DEF Next, Progress, Cancels

(* A loop that is cancelled stays away, except for one that stop finds with *)
(* a capture that has just ended.                                           *)
LEMMA LoopsEnd ==
    ASSUME IInv, Next
    PROVE  /\ loops' \subseteq loops
           /\ gateway = "running" /\ gateway' # "running" => loops' \subseteq MayBeDeaf
<1> USE PicturesAssumption
<1>1. CASE Cancels
  <2>1. loops' \subseteq loops
    BY <1>1, CancelShape DEF Cancelled
  <2>2. gateway = "running" => loops' \subseteq MayBeDeaf
    BY <1>1 DEF Cancels, Stop, CancelAgain, CancelAll, Cancel
  <2> QED  BY <2>1, <2>2
<1>2. CASE ReceiveEnds \/ CallStop \/ ThreadsJoined
  BY <1>2 DEF ReceiveEnds, CallStop, ThreadsJoined
<1>3. ASSUME NEW p \in Pictures, Coroutine(p) \/ Job(p) \/ Ask(p)
      PROVE  loops' \subseteq loops /\ gateway' = gateway
  BY <1>3 DEF Coroutine, CaptureReturns, CaptureTimesOut, ReportSent, ReportStored, Reported,
              StoreReport, ReportRaises, GateReturns, DetectionReturns, Job, UploadEnds,
              StepEnds, InsertEnds, ModelCalled, ModelReturns, Ask
<1>4. ASSUME NEW t \in Threads, LockWaitEnds(t) \/ SensorReturns(t)
      PROVE  UNCHANGED <<loops, gateway>>
  BY <1>4 DEF LockWaitEnds, SensorReturns
<1>5. WorkerTakes => UNCHANGED <<loops, gateway>>
  BY DEF WorkerTakes
<1> QED
  BY <1>1, <1>2, <1>3, <1>4, <1>5 DEF Next, Progress, Cancels

(* app.py stops everything but a loop whose capture (capture.py:106,        *)
(* app.py:208) had just ended: whenever the threads that outlive the tasks  *)
(* end, no other job begins, and no other report is made than by an INSERT  *)
(* that was under way.                                                      *)
THEOREM StopSparesOnlyTheDeaf == Spec => OnlyTheDeafGoOn
<1> DEFINE Deaf == /\ gateway = "running" /\ gateway' # "running" => loops' \subseteq MayBeDeaf
                   /\ gateway # "running" =>
                        /\ loops' \subseteq loops
                        /\ \A job \in Running' \ Running : LoopOf(job[2]) \in loops
                        /\ \A report \in reports' \ reports :
                              \/ LoopOf(report[1]) \in loops
                              \/ report[2] = step[report[1]]
<1>1. ASSUME IInv, Next PROVE Deaf
  <2>1. \A job \in Running' \ Running : LoopOf(job[2]) \in loops
    BY <1>1, JobsOfTheDeaf DEF Running
  <2> QED  BY <1>1, <2>1, ReportsOfTheDeaf, LoopsEnd
<1>2. IInv /\ [Next]_vars => [Deaf]_vars
  BY <1>1
<1> QED  BY <1>2, PicturesInvariance, PTL DEF Spec, OnlyTheDeafGoOn

-------------------------------------------------------------------------------
(* The reports of the gateway are those of PictureStory. *)

LEMMA StoryBegins == Init => Story!Init
<1> SUFFICES ASSUME Init PROVE Story!Init
  OBVIOUS
<1>1. [p \in Pictures |-> Said(p)] = [p \in Pictures |-> {}]
  BY DEF Init, Said
<1> QED  BY <1>1 DEF Init, Story!Init

(* A true report is one that the story allows. *)
LEMMA ReportIsAllowed ==
    ASSUME NEW p \in Pictures, NEW k \in Kinds, OneTrueReport(p, k)
    PROVE  Story!Announce(p) \/ Story!Fail(p) \/ Story!Judge(p)
<1> DEFINE said == [q \in Pictures |-> Said(q)]
<1>1. /\ MaySay(p, k) /\ UNCHANGED <<uploaded, blocked>>
      /\ Said(p)' = Said(p) \cup {k}
      /\ \A q \in Pictures \ {p} : Said(q)' = Said(q)
  BY OneMoreSaid DEF OneTrueReport
<1>2. said' = [said EXCEPT ![p] = @ \cup {k}]
  BY <1>1
<1>3. said[p] = Said(p)
  OBVIOUS
<1>4. CASE k = "SUCCESS"
  BY <1>1, <1>2, <1>3, <1>4 DEF MaySay, Story!Announce, Story!Say
<1>5. CASE k = "FAILED"
  BY <1>1, <1>2, <1>3, <1>5 DEF MaySay, Story!Fail, Story!Say
<1>6. CASE k \in {"neutral", "scored"}
  BY <1>1, <1>2, <1>3, <1>6 DEF MaySay, Story!Judge, Story!Say
<1> QED  BY <1>4, <1>5, <1>6 DEF Kinds

(* A step that reports, stores and refuses nothing is none of the story. *)
LEMMA NotOfTheStory ==
    ASSUME UNCHANGED resultVars
    PROVE  UNCHANGED Story!storyVars
  BY DEF resultVars, Story!storyVars, Said

LEMMA StoryGoesOn == IInv /\ [Next]_vars => [Story!Next]_(Story!storyVars)
<1> SUFFICES ASSUME IInv, [Next]_vars PROVE Story!Next \/ UNCHANGED Story!storyVars
  OBVIOUS
<1> USE PicturesAssumption
<1>1. CASE ~UNCHANGED reports
  <2>1. PICK p \in Pictures, k \in Kinds : OneTrueReport(p, k)
    BY <1>1, OnlyTrueReports DEF IInv
  <2> QED  BY <2>1, ReportIsAllowed DEF Story!Next
<1> SUFFICES ASSUME UNCHANGED reports PROVE Story!Next \/ UNCHANGED Story!storyVars
  BY <1>1
<1>2. UNCHANGED <<uploaded, blocked>> => UNCHANGED Story!storyVars
  BY NotOfTheStory DEF resultVars
<1>3. ASSUME NEW p \in Pictures, UploadEnds(p)
      PROVE  Story!Next \/ UNCHANGED Story!storyVars
  <2>1. uploaded' = uploaded \cup {p} \/ UNCHANGED uploaded
    BY <1>3 DEF UploadEnds
  <2>2. UNCHANGED blocked
    BY <1>3 DEF UploadEnds
  <2>3. uploaded' = uploaded \cup {p} => Story!Store(p)
    BY <2>2 DEF Story!Store, Said
  <2> QED  BY <2>1, <2>2, <2>3, <1>2 DEF Story!Next
<1>4. ASSUME NEW p \in Pictures, GateReturns(p)
      PROVE  Story!Next \/ UNCHANGED Story!storyVars
  <2>1. UNCHANGED uploaded
    BY <1>4 DEF GateReturns
  <2>2. UNCHANGED blocked \/ blocked' = blocked \cup {p}
    BY <1>4 DEF GateReturns
  <2>3. VisionLoaded /\ Said(p) = {"SUCCESS"}
    BY <1>4 DEF GateReturns, IInv, RightPlace, SaidSoFar, SaidAt
  <2>4. blocked' = blocked \cup {p} => Story!Refuse(p)
    BY <2>1, <2>3 DEF Story!Refuse, Said
  <2> QED  BY <2>1, <2>2, <2>4, <1>2 DEF Story!Next
<1>5. ASSUME NEW p \in Pictures, Job(p), ~UploadEnds(p) PROVE UNCHANGED <<uploaded, blocked>>
  BY <1>5 DEF Job, StepEnds, InsertEnds, ModelCalled, ModelReturns, resultVars
<1>6. ASSUME NEW p \in Pictures, Coroutine(p), ~GateReturns(p)
      PROVE  UNCHANGED <<uploaded, blocked>>
  BY <1>6 DEF Coroutine, CaptureReturns, CaptureTimesOut, ReportSent, ReportStored, Reported,
              StoreReport, ReportRaises, DetectionReturns, resultVars
<1>7. ASSUME NEW p \in Pictures, Ask(p) PROVE UNCHANGED <<uploaded, blocked>>
  BY <1>7 DEF Ask, resultVars
<1>8. ASSUME NEW t \in Threads, LockWaitEnds(t) \/ SensorReturns(t)
      PROVE  UNCHANGED <<uploaded, blocked>>
  BY <1>8 DEF LockWaitEnds, SensorReturns, resultVars
<1>9. WorkerTakes \/ Cancels \/ ReceiveEnds \/ CallStop \/ ThreadsJoined \/ UNCHANGED vars
        => UNCHANGED <<uploaded, blocked>>
  BY DEF WorkerTakes, Cancels, Stop, CancelAgain, CancelAll, Cancel, ReceiveEnds, CallStop,
         ThreadsJoined, vars, resultVars
<1> QED
  BY <1>2, <1>3, <1>4, <1>5, <1>6, <1>7, <1>8, <1>9
     DEF Next, Progress, Cancels

(* The worker threads, the timeouts and the two askers of capture.py and    *)
(* vision.py together tell the story of each picture that PictureStory      *)
(* allows, and no other.                                                    *)
THEOREM PicturesTellTheStory == Spec => ImplementsStory
  BY StoryBegins, StoryGoesOn, PicturesInvariance, PTL DEF Spec, ImplementsStory, Story!Spec
===============================================================================
