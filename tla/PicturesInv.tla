------------------------------ MODULE PicturesInv ------------------------------
(* The inductive invariant of Pictures.                                      *)
EXTENDS Pictures

(* A call of the camera manager begins where none is under way.              *)
CallsBegin ==
    /\ \A p \in Pictures : task[p] = "idle" => at[p] = "none"
    /\ gateway \in {"running", "closing", "waiting"} => at[Loop] = "none"

(* A coroutine goes past the capture only with a stored picture.             *)
AfterUpload == {"success", "verdict"} \cup Offloaded
GoesOnWithPicture ==
    \A p \in Pictures :
        at[p] = "ok" \/ task[p] \in AfterUpload => p \in uploaded

(* What has been said of a picture follows from the place of its coroutine.  *)
SaidAt(p) ==
    /\ task[p] \in {"idle", "capture"} => Said(p) = {}
    /\ task[p] = "success" /\ step[p] = "ok" => Said(p) = {"SUCCESS"}
    /\ task[p] \in Offloaded => Said(p) = {"SUCCESS"}

SaidSoFar == \A p \in Pictures : SaidAt(p)

(* What would be true and new, if it were said now.                          *)
MaySay(p, k) ==
    /\ k \in {"SUCCESS", "FAILED"} => Said(p) = {}
    /\ k \in {"neutral", "scored"} => Said(p) = {"SUCCESS"} /\ VisionLoaded
    /\ k = "FAILED" => p \in Manual
    /\ k # "FAILED" => p \in uploaded
    /\ k = "neutral" => p \in blocked
    /\ k = "scored" => p \notin blocked /\ scoreOf[p] = p

(* A report stays true as long as it waits: in its coroutine for the socket  *)
(* or a thread, and in the thread that inserts it, with or without its task. *)
HandAt(p) ==
    /\ task[p] \in {"idle", "capture"} => step[p] = "none"
    /\ task[p] \in Reporting =>
          step[p] \in {"none", "queued", "ok", "error", Message(p)}
    /\ task[p] \in Reporting /\ step[p] # "ok" => MaySay(p, Message(p))
    /\ step[p] \in Kinds => MaySay(p, step[p]) /\ task[p] \in Reporting \cup {"over"}

ReportInHand == \A p \in Pictures : HandAt(p)

(* The tensor is the caller's while it holds the lock, and a coroutine goes  *)
(* past the model only with the score of its own picture.                    *)
OwnTensor ==
    \A p \in Pictures : step[p] = "invoke" => model = p /\ tensor = p

OwnScore ==
    \A p \in Pictures :
        /\ task[p] = "predict" => step[p] \notin {"none", "busy", "blocked"} \cup Kinds
        /\ task[p] = "predict" /\ step[p] = "ok" => scoreOf[p] = p
        /\ task[p] = "overlay" => scoreOf[p] = p

(* Who may be where: only a command is told of a failure, and only a loaded  *)
(* detector judges.                                                          *)
RightPlace ==
    \A p \in Pictures :
        /\ task[p] = "failure" => p \in Manual
        /\ task[p] \in Offloaded \cup {"verdict"} => VisionLoaded

(* A job that waits for a worker is awaited by a coroutine, the coroutine    *)
(* runs in its loop, and a loop has one at a time.                           *)
AwaitedByALoop ==
    \A p \in Pictures :
        /\ at[p] = "queued" => task[p] = "capture"
        /\ step[p] = "queued" => task[p] \in Reporting \cup Offloaded
        /\ task[p] \in Active =>
              /\ LoopOf(p) \in loops
              /\ \A q \in Pictures : LoopOf(q) = LoopOf(p) /\ task[q] \in Active => q = p

IInv ==
    /\ TypeOK /\ SensorSafe /\ CallsBegin
    /\ AnnouncedIsStored /\ GoesOnWithPicture
    /\ OneStory /\ SaidSoFar /\ ReportInHand
    /\ ScoredOwnFrame /\ OwnTensor /\ OwnScore
    /\ RightPlace /\ AwaitedByALoop
===============================================================================
