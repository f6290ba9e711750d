-------------------------------- MODULE Camera --------------------------------
(***************************************************************************)
(* camera_manager.py: one sensor, one lock whose acquisition times out,    *)
(* and the threads that call start, capture_full_frame and stop.  A call   *)
(* of picamera2 is the time between two steps of a thread: it may take any *)
(* time, or for ever.                                                      *)
(***************************************************************************)
CONSTANTS Threads, Nobody

ASSUME CameraAssumption == Nobody \notin Threads

VARIABLES
    camera,  \* _camera: "none" or "open"
    lock,    \* who holds _lock
    at       \* how far each thread is in its calls

cameraVars == <<camera, lock, at>>

Waiting  == {"startWait", "frameWait", "stopWait"}   \* in _lock.acquire
InSensor == {"starting", "reading", "stopping"}      \* in picamera2, with the lock
Settled  == {"frame", "error", "released"}           \* the call is over

Go(t, place) == at' = [at EXCEPT ![t] = place]

(* start: nothing to do when there is a camera. *)
StartCalled(t) ==
    /\ at[t] = "startWait" /\ lock = Nobody
    /\ IF camera = "open" THEN Go(t, "frameWait") /\ UNCHANGED lock
                          ELSE Go(t, "starting") /\ lock' = t
    /\ UNCHANGED camera

Started(t) ==
    /\ at[t] = "starting"
    /\ camera' = "open" /\ lock' = Nobody /\ Go(t, "frameWait")

StartFails(t) ==
    /\ at[t] = "starting"
    /\ lock' = Nobody /\ Go(t, "error")
    /\ UNCHANGED camera

(* capture_full_frame: stop may have come since start. *)
ReadCalled(t) ==
    /\ at[t] = "frameWait" /\ lock = Nobody
    /\ IF camera = "open" THEN Go(t, "reading") /\ lock' = t
                          ELSE Go(t, "error") /\ UNCHANGED lock
    /\ UNCHANGED camera

ReadEnds(t) ==
    /\ at[t] = "reading"
    /\ lock' = Nobody /\ \E place \in {"frame", "error"} : Go(t, place)
    /\ UNCHANGED camera

StopCalled(t) ==
    /\ at[t] = "stopWait" /\ lock = Nobody
    /\ IF camera = "open" THEN Go(t, "stopping") /\ lock' = t
                          ELSE Go(t, "released") /\ UNCHANGED lock
    /\ UNCHANGED camera

(* The reference is dropped even if picamera2 raises. *)
StopEnds(t) ==
    /\ at[t] = "stopping"
    /\ camera' = "none" /\ lock' = Nobody
    /\ \E place \in {"released", "error"} : Go(t, place)

(* acquire gave up: CameraError. *)
LockTimesOut_Unheeded(t) ==
    /\ at[t] \in Waiting /\ lock # Nobody
    /\ Go(t, CASE at[t] = "startWait" -> "starting"
               [] at[t] = "frameWait" -> "reading"
               [] at[t] = "stopWait"  -> "stopping")
    /\ UNCHANGED <<camera, lock>>
LockTimesOut_Never(t) ==
    /\ at[t] = "nowhere" /\ lock # Nobody
    /\ UNCHANGED cameraVars
LockTimesOut(t) ==
    /\ at[t] \in Waiting /\ lock # Nobody
    /\ Go(t, "error")
    /\ UNCHANGED <<camera, lock>>

(* The wait for the lock ends in either way; a call of picamera2 need not. *)
LockAwaited(t) ==
    StartCalled(t) \/ ReadCalled(t) \/ StopCalled(t) \/ LockTimesOut(t)
SensorAnswers(t) ==
    Started(t) \/ StartFails(t) \/ ReadEnds(t) \/ StopEnds(t)

(* The sensor is driven by one thread at a time, the holder of the lock;   *)
(* it is never opened while it is open and never read while it is not      *)
(* (README: the camera is never opened by two code paths at once).         *)
SensorSafe ==
    /\ \A t \in Threads : at[t] \in InSensor <=> lock = t
    /\ \A t \in Threads : /\ at[t] = "starting" => camera = "none"
                          /\ at[t] = "reading"  => camera = "open"
===============================================================================
