------------------------------- MODULE Pictures -------------------------------
(***************************************************************************)
(* The way of a picture: capture_and_upload in a worker thread under the   *)
(* timeout of its task (capture.py, app.py), the reports, the quality      *)
(* gate, the model and the overlay (vision.py), and the end of the gateway.*)
(*                                                                         *)
(* A picture is asked for by CAPTURE_IMAGE (Manual) or by the vision loop  *)
(* (Periodic).  Everything blocking runs in the one default executor of    *)
(* asyncio, the inserts of the offline buffer among it.                    *)
(***************************************************************************)
EXTENDS Camera, Integers, Sequences, FiniteSets

CONSTANTS
    Manual, Periodic,  \* bound: the pictures of the two askers
    Loop,              \* the thread of the event loop, which calls stop
    Workers,           \* threads of the executor
    VisionLoaded       \* the detector was loaded at startup

Pictures == Manual \cup Periodic

ASSUME PicturesAssumption ==
    /\ Threads = Pictures \cup {Loop} /\ Loop \notin Pictures
    /\ Manual \cap Periodic = {} /\ IsFiniteSet(Pictures)
    /\ Workers \in Nat \ {0} /\ VisionLoaded \in BOOLEAN

VARIABLES
    gateway,   \* SolarGateway.run
    loops,     \* those of the receive loop and the vision loop that run
    task,      \* where the coroutine of a picture is
    step,      \* its executor job other than the capture (at); the INSERT of
               \* a report bears the report's name, as it outlives its task
    queue,     \* jobs that wait for a worker
    model,     \* who holds the interpreter's lock
    tensor,    \* whose frame is in the input tensor
    \* results
    uploaded,  \* pictures in Storage
    blocked,   \* those the quality gate refused
    scoreOf,   \* whose frame the score of a picture was computed from
    reports    \* what was sent or buffered

taskVars   == <<task, step, queue>>
modelVars  == <<model, tensor, scoreOf>>
resultVars == <<uploaded, blocked, reports>>
vars == <<cameraVars, gateway, loops, taskVars, modelVars, resultVars>>

Reporting == {"success", "failure", "verdict"}   \* in ws_send
Offloaded == {"gate", "predict", "overlay"}      \* in asyncio.to_thread
Active    == {"capture"} \cup Reporting \cup Offloaded
Kinds     == {"SUCCESS", "FAILED", "neutral", "scored"}
Jobs      == {"shot", "step"} \X Pictures

TypeOK ==
    /\ camera \in {"none", "open"} /\ lock \in Threads \cup {Nobody}
    /\ at \in [Threads -> {"none", "queued", "ok"} \cup Waiting \cup InSensor \cup Settled]
    /\ gateway \in {"running", "closing", "waiting", "stopping", "joining", "ended"}
    /\ loops \subseteq {"receive", "vision"}
    /\ task \in [Pictures -> {"idle", "over"} \cup Active]
    /\ step \in [Pictures -> {"none", "queued", "busy", "modelWait", "invoke",
                              "ok", "error", "blocked"} \cup Kinds]
    /\ queue \in Seq(Jobs)
    /\ model \in Pictures \cup {Nobody} /\ tensor \in Pictures \cup {Nobody}
    /\ uploaded \subseteq Pictures /\ blocked \subseteq Pictures
    /\ scoreOf \in [Pictures -> Pictures \cup {Nobody}]
    /\ reports \subseteq Pictures \X Kinds

(* _start_camera_best_effort may have failed. *)
Init ==
    /\ camera \in {"none", "open"} /\ lock = Nobody /\ at = [t \in Threads |-> "none"]
    /\ gateway = "running" /\ loops = {"receive"} \cup (IF VisionLoaded THEN {"vision"} ELSE {})
    /\ task = [p \in Pictures |-> "idle"] /\ step = [p \in Pictures |-> "none"]
    /\ queue = << >> /\ model = Nobody /\ tensor = Nobody
    /\ uploaded = {} /\ blocked = {} /\ reports = {}
    /\ scoreOf = [p \in Pictures |-> Nobody]

-------------------------------------------------------------------------------
(* The executor.  A job that was cancelled in the queue is skipped there;  *)
(* one that runs goes on whatever becomes of the task that awaited it.     *)

ShotRuns(p) == at[p] \in Waiting \cup InSensor \cup {"frame"}
StepRuns(p) == step[p] \in {"busy", "modelWait", "invoke"} \cup Kinds
Running ==
    ({"shot"} \X {p \in Pictures : ShotRuns(p)})
        \cup ({"step"} \X {p \in Pictures : StepRuns(p)})

Message_Typo(p) ==
    CASE task[p] = "success" -> "SUCCESS"
      [] task[p] = "failure" -> "FAILURE"
      [] task[p] = "verdict" -> IF p \in blocked THEN "neutral" ELSE "scored"
Message(p) ==
    CASE task[p] = "success" -> "SUCCESS"
      [] task[p] = "failure" -> "FAILED"
      [] task[p] = "verdict" -> IF p \in blocked THEN "neutral" ELSE "scored"

Begins(p) ==
    CASE task[p] = "predict"     -> "modelWait"
      [] task[p] \in Reporting  -> Message(p)
      [] OTHER                   -> "busy"

WorkerTakes ==
    /\ queue # << >> /\ Cardinality(Running) < Workers
    /\ queue' = Tail(queue)
    /\ LET kind == Head(queue)[1]
           p == Head(queue)[2] IN
       /\ at' = IF kind = "shot" /\ at[p] = "queued"
                THEN [at EXCEPT ![p] = "startWait"] ELSE at
       /\ step' = IF kind = "step" /\ step[p] = "queued"
                  THEN [step EXCEPT ![p] = Begins(p)] ELSE step
    /\ UNCHANGED <<camera, lock, gateway, loops, task, modelVars, resultVars>>

(* The camera manager in a worker, or in the loop's thread once run stops. *)
LockWaitEnds(t) ==
    /\ LockAwaited(t)
    /\ UNCHANGED <<gateway, loops, taskVars, modelVars, resultVars>>

SensorReturns(t) ==
    /\ SensorAnswers(t)
    /\ UNCHANGED <<gateway, loops, taskVars, modelVars, resultVars>>

(* The encoding and the upload, with the timeouts of the HTTP client. *)
UploadEnds(p) ==
    /\ at[p] = "frame"
    /\ \/ Go(p, "ok") /\ uploaded' = uploaded \cup {p}
       \/ Go(p, "error") /\ UNCHANGED uploaded
    /\ UNCHANGED <<camera, lock, gateway, loops, taskVars, modelVars, blocked, reports>>

(* A failed overlay is logged in its thread; only the gate can block. *)
Outcomes(p) ==
    CASE task[p] = "gate"    -> {"ok", "error", "blocked"}
      [] task[p] = "overlay" -> {"ok"}
      [] OTHER               -> {"ok", "error"}

StepEnds(p) ==
    /\ step[p] = "busy"
    /\ \E result \in Outcomes(p) : step' = [step EXCEPT ![p] = result]
    /\ UNCHANGED <<cameraVars, gateway, loops, task, queue, modelVars, resultVars>>

(* The INSERT of a report commits, though its task may be cancelled by now. *)
InsertEnds(p) ==
    /\ step[p] \in Kinds
    /\ \/ /\ step' = [step EXCEPT ![p] = "ok"]
          /\ reports' = reports \cup {<<p, step[p]>>}
       \/ step' = [step EXCEPT ![p] = "error"] /\ UNCHANGED reports
    /\ UNCHANGED <<cameraVars, gateway, loops, task, queue, modelVars, uploaded, blocked>>

(* predict: set_tensor, invoke and get_tensor under the interpreter's lock. *)
ModelCalled_Unlocked(p) ==
    /\ step[p] = "modelWait"
    /\ model' = p /\ tensor' = p
    /\ step' = [step EXCEPT ![p] = "invoke"]
    /\ UNCHANGED <<cameraVars, gateway, loops, task, queue, scoreOf, resultVars>>
ModelCalled(p) ==
    /\ step[p] = "modelWait" /\ model = Nobody
    /\ model' = p /\ tensor' = p
    /\ step' = [step EXCEPT ![p] = "invoke"]
    /\ UNCHANGED <<cameraVars, gateway, loops, task, queue, scoreOf, resultVars>>

ModelReturns(p) ==
    /\ step[p] = "invoke"
    /\ model' = Nobody
    /\ \/ step' = [step EXCEPT ![p] = "ok"] /\ scoreOf' = [scoreOf EXCEPT ![p] = tensor]
       \/ step' = [step EXCEPT ![p] = "error"] /\ UNCHANGED scoreOf
    /\ UNCHANGED <<cameraVars, gateway, loops, task, queue, tensor, resultVars>>

-------------------------------------------------------------------------------
(* handle_capture_image, _run_vision_cycle and detect_and_report.          *)

(* The next await of the coroutine. *)
Await(p, stage) ==
    /\ task' = [task EXCEPT ![p] = stage]
    /\ step' = [step EXCEPT ![p] = IF stage \in Offloaded THEN "queued" ELSE "none"]
    /\ queue' = IF stage \in Offloaded THEN Append(queue, <<"step", p>>) ELSE queue

LoopOf(p) == IF p \in Manual THEN "receive" ELSE "vision"

RunReturned == at[Loop] \in Settled

(* No coroutine runs while the thread of the loop is in camera.stop. *)
LoopTurns == gateway = "stopping" => RunReturned

(* Each of the loops waits for the end of its last picture. *)
Ask(p) ==
    /\ LoopOf(p) \in loops /\ LoopTurns /\ task[p] = "idle"
    /\ \A q \in Pictures : LoopOf(q) = LoopOf(p) => task[q] \notin Active
    /\ task' = [task EXCEPT ![p] = "capture"]
    /\ Go(p, "queued") /\ queue' = Append(queue, <<"shot", p>>)
    /\ UNCHANGED <<camera, lock, gateway, loops, step, modelVars, resultVars>>

(* Only the command is told that there is no picture. *)
GiveUp(p) == Await(p, IF p \in Manual THEN "failure" ELSE "over")

CaptureReturns(p) ==
    /\ task[p] = "capture"
    /\ \/ at[p] = "ok" /\ Await(p, "success")
       \/ at[p] = "error" /\ GiveUp(p)
    /\ UNCHANGED <<cameraVars, gateway, loops, modelVars, resultVars>>

(* wait_for cancels the future: a job still in the queue will be skipped,  *)
(* a running one becomes a thread nobody waits for.                        *)
CaptureTimesOut(p) ==
    /\ task[p] = "capture" /\ at[p] \notin {"ok", "error"}
    /\ task' = [task EXCEPT ![p] = IF p \in Manual THEN "failure" ELSE "over"]
    /\ at' = IF at[p] = "queued" THEN [at EXCEPT ![p] = "none"] ELSE at
    /\ UNCHANGED <<camera, lock, gateway, loops, step, queue, modelVars, resultVars>>

(* What the coroutine does after a report. *)
Reported(p) ==
    /\ Await(p, IF task[p] = "success" /\ VisionLoaded THEN "gate" ELSE "over")
    /\ UNCHANGED <<cameraVars, gateway, loops, modelVars, uploaded, blocked>>

ReportSent(p) ==
    /\ task[p] \in Reporting /\ step[p] = "none"
    /\ reports' = reports \cup {<<p, Message(p)>>}
    /\ Reported(p)

ReportStored(p) ==
    /\ task[p] \in Reporting /\ step[p] = "ok"
    /\ UNCHANGED reports
    /\ Reported(p)

(* No connection: send_or_buffer inserts in a worker thread. *)
StoreReport(p) ==
    /\ task[p] \in Reporting /\ step[p] = "none"
    /\ step' = [step EXCEPT ![p] = "queued"]
    /\ queue' = Append(queue, <<"step", p>>)
    /\ UNCHANGED <<cameraVars, gateway, loops, task, modelVars, resultVars>>

(* The insert raised.  The receive loop catches it, the vision cycle does  *)
(* so for the verdict but not for the SUCCESS.                             *)
ReportRaises(p) ==
    /\ task[p] \in Reporting /\ step[p] = "error"
    /\ Await(p, "over")
    /\ loops' = IF p \in Periodic /\ task[p] = "success" THEN loops \ {"vision"} ELSE loops
    /\ UNCHANGED <<cameraVars, gateway, modelVars, resultVars>>

GateReturns_NoReturn(p) ==
    /\ task[p] = "gate" /\ step[p] \in {"ok", "error", "blocked"}
    /\ \/ step[p] \in {"ok", "error"} /\ Await(p, IF step[p] = "ok" THEN "predict" ELSE "over")
                                      /\ UNCHANGED <<reports, blocked>>
       \/ /\ step[p] = "blocked" /\ Await(p, "predict")
          /\ reports' = reports \cup {<<p, "neutral">>} /\ UNCHANGED blocked
    /\ UNCHANGED <<cameraVars, gateway, loops, modelVars, uploaded>>
GateReturns(p) ==
    /\ task[p] = "gate"
    /\ \/ step[p] = "ok" /\ Await(p, "predict") /\ UNCHANGED blocked
       \/ step[p] = "error" /\ Await(p, "over") /\ UNCHANGED blocked
       \/ step[p] = "blocked" /\ Await(p, "verdict") /\ blocked' = blocked \cup {p}
    /\ UNCHANGED <<cameraVars, gateway, loops, modelVars, uploaded, reports>>

DetectionReturns(p) ==
    /\ \/ task[p] = "predict" /\ step[p] = "ok" /\ Await(p, "overlay")
       \/ task[p] = "predict" /\ step[p] = "error" /\ Await(p, "over")
       \/ task[p] = "overlay" /\ step[p] = "ok" /\ Await(p, "verdict")
    /\ UNCHANGED <<cameraVars, gateway, loops, modelVars, resultVars>>

-------------------------------------------------------------------------------
(* The end of run: the loops are cancelled, and with them what they wait   *)
(* for; the loop's own thread stops the camera; then asyncio.run cancels   *)
(* what is left and waits for the threads of the executor.                 *)

Drop(places, pics) ==
    [k \in DOMAIN places |->
        IF k \in pics /\ places[k] = "queued" THEN "none" ELSE places[k]]

(* A capture that has ended while its coroutine has not yet been resumed.  *)
(* Its wait_for swallows a cancellation, unless Python is 3.12 or newer:   *)
(* the loop is deaf to it and goes on with the result.                     *)
JustEnded(p) == task[p] = "capture" /\ at[p] \in {"ok", "error"}
MayBeDeaf    == {LoopOf(p) : p \in {q \in Pictures : JustEnded(q)}}

Cancel_KeepsJobs(ls) ==
    \E deaf \in SUBSET MayBeDeaf :
        LET over == {p \in Pictures : task[p] \in Active /\ LoopOf(p) \in ls \ deaf} IN
        /\ loops' = loops \ (ls \ deaf)
        /\ task' = [p \in Pictures |-> IF p \in over THEN "over" ELSE task[p]]
        /\ UNCHANGED <<camera, lock, at, step, queue, modelVars, resultVars>>
Cancel(ls) ==
    \E deaf \in SUBSET MayBeDeaf :
        LET over == {p \in Pictures : task[p] \in Active /\ LoopOf(p) \in ls \ deaf} IN
        /\ loops' = loops \ (ls \ deaf)
        /\ task' = [p \in Pictures |-> IF p \in over THEN "over" ELSE task[p]]
        /\ at' = Drop(at, over) /\ step' = Drop(step, over)
        /\ UNCHANGED <<camera, lock, queue, modelVars, resultVars>>

Stop ==
    /\ gateway = "running" /\ gateway' = "closing"
    /\ Cancel(loops)

(* The timeout of run's own wait_for cancels the client once more, and     *)
(* waits for it without a limit.                                           *)
CancelAgain ==
    /\ gateway = "closing" /\ "receive" \in loops
    /\ gateway' = "waiting"
    /\ Cancel({"receive"})

(* The connection of a deaf client ends; the stop event is set. *)
ReceiveEnds ==
    /\ gateway \in {"closing", "waiting"} /\ "receive" \in loops
    /\ \A p \in Manual : task[p] \notin Active
    /\ loops' = loops \ {"receive"}
    /\ UNCHANGED <<cameraVars, gateway, taskVars, modelVars, resultVars>>

CallStop ==
    /\ gateway \in {"closing", "waiting"} /\ "receive" \notin loops
    /\ gateway' = "stopping"
    /\ Go(Loop, "stopWait")
    /\ UNCHANGED <<camera, lock, loops, taskVars, modelVars, resultVars>>

CancelAll ==
    /\ gateway = "stopping" /\ RunReturned
    /\ gateway' = "joining"
    /\ Cancel(loops)

(* asyncio.run waits for every task, and then for every thread. *)
ThreadsJoined ==
    /\ gateway = "joining" /\ loops = {} /\ Running = {}
    /\ gateway' = "ended"
    /\ UNCHANGED <<cameraVars, loops, taskVars, modelVars, resultVars>>

-------------------------------------------------------------------------------
Job(p) ==
    \/ UploadEnds(p) \/ StepEnds(p) \/ InsertEnds(p)
    \/ ModelCalled(p) \/ ModelReturns(p)

Coroutine(p) ==
    /\ LoopTurns
    /\ \/ CaptureReturns(p) \/ CaptureTimesOut(p)
       \/ ReportSent(p) \/ ReportStored(p) \/ StoreReport(p) \/ ReportRaises(p)
       \/ GateReturns(p) \/ DetectionReturns(p)

(* What the code and the libraries with a timeout do sooner or later. *)
Progress ==
    \/ \E t \in Threads : LockWaitEnds(t)
    \/ \E p \in Pictures : Job(p) \/ Coroutine(p)
    \/ WorkerTakes \/ CancelAgain \/ CallStop \/ CancelAll \/ ThreadsJoined

Next ==
    \/ Progress
    \/ \E t \in Threads : SensorReturns(t)
    \/ \E p \in Pictures : Ask(p)
    \/ Stop \/ ReceiveEnds

Spec == Init /\ [][Next]_vars

(* As long as anything but the sensor can go on, something does; there is  *)
(* only so much to do for a picture that no thread or task starves.  A     *)
(* call of picamera2 need not return, no picture need be asked for, and no *)
(* connection need end.                                                    *)
Fairness == WF_vars(Progress)

FairSpec == Spec /\ Fairness

-------------------------------------------------------------------------------
Said(p) == {k \in Kinds : <<p, k>> \in reports}

(* A picture that is announced or judged is in Storage; one that was given *)
(* up is never announced, though its thread may still store it.            *)
AnnouncedIsStored ==
    \A p \in Pictures : Said(p) \subseteq {"FAILED"} \/ p \in uploaded

(* A picture gets one answer, SUCCESS or FAILED, and at most one judgement *)
(* after a SUCCESS: none for a failure, no score for an obstructed one.    *)
OneStory ==
    \A p \in Pictures :
        \/ Said(p) \in {{}, {"SUCCESS"}, {"FAILED"}}
        \/ Said(p) \in {{"SUCCESS", "neutral"}, {"SUCCESS", "scored"}}

(* A score belongs to the picture it is reported for, although the two     *)
(* askers share the interpreter and its tensors.                           *)
ScoredOwnFrame ==
    \A p \in Pictures : "scored" \in Said(p) => scoreOf[p] = p

(* The reports of all askers and threads, in any order of their steps, are *)
(* those that the life of a picture allows.                                *)
Story == INSTANCE PictureStory WITH
    Pics <- Pictures, OnCommand <- Manual, Detector <- VisionLoaded,
    stored <- uploaded, obstructed <- blocked, said <- [p \in Pictures |-> Said(p)]

ImplementsStory == Story!Spec

(* After a cancellation only a loop that was deaf to it goes on, one whose *)
(* capture had just ended.  Nothing else begins a job in a thread, and     *)
(* nothing else is reported but what an INSERT that runs has in hand,      *)
(* although the threads go on and end at any time.                         *)
OnlyTheDeafGoOn ==
    [][/\ gateway = "running" /\ gateway' # "running" => loops' \subseteq MayBeDeaf
       /\ gateway # "running" =>
            /\ loops' \subseteq loops
            /\ \A job \in Running' \ Running : LoopOf(job[2]) \in loops
            /\ \A report \in reports' \ reports :
                  \/ LoopOf(report[1]) \in loops
                  \/ report[2] = step[report[1]]]_vars

(* One wedged call of the camera stops no other work: every picture that   *)
(* was asked for is answered or given up, so that the receive loop and the *)
(* vision loop go on (camera_manager: "must never block other captures"),  *)
(* unless picamera2 hangs in the stop that the loop's own thread has       *)
(* called.                                                                 *)
AskerGoesOn ==
    \A p \in Pictures : task[p] \in Active ~> task[p] = "over" \/ at[Loop] = "stopping"

(* run returns from the stop of the camera although a thread may hold the  *)
(* lock for ever, unless picamera2 hangs in that very stop, or the client  *)
(* is deaf to the second cancellation as well.                             *)
StopReturns ==
    gateway = "closing" ~>
        RunReturned \/ at[Loop] = "stopping" \/ (gateway = "waiting" /\ "receive" \in loops)

(* _vision_loop: a failed cycle "never tears down the loop". *)
VisionLoopSurvives == VisionLoaded /\ gateway = "running" => "vision" \in loops
===============================================================================
