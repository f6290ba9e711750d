----------------------------- MODULE PictureStory -----------------------------
(***************************************************************************)
(* What the server may be told of a picture, whoever asked for it and      *)
(* whatever thread or task was late: one answer, SUCCESS or FAILED, and    *)
(* after a SUCCESS at most one judgement, the one the quality gate calls   *)
(* for.  Nothing that was said is taken back.                              *)
(***************************************************************************)
CONSTANTS
    Pics,       \* the pictures
    OnCommand,  \* those that a command waits for
    Detector    \* the model is loaded

VARIABLES
    stored,      \* pictures in Storage
    obstructed,  \* pictures that the gate refused
    said         \* of each picture, the kinds of its messages

storyVars == <<stored, obstructed, said>>

Init ==
    /\ stored = {} /\ obstructed = {}
    /\ said = [p \in Pics |-> {}]

(* The picture may be stored long after it was given up. *)
Store(p) ==
    /\ stored' = stored \cup {p}
    /\ UNCHANGED <<obstructed, said>>

Say(p, kind) ==
    /\ said' = [said EXCEPT ![p] = @ \cup {kind}]
    /\ UNCHANGED <<stored, obstructed>>

Announce(p) == said[p] = {} /\ p \in stored /\ Say(p, "SUCCESS")

(* Only a command is told that there is no picture. *)
Fail(p) == said[p] = {} /\ p \in OnCommand /\ Say(p, "FAILED")

Refuse(p) ==
    /\ Detector /\ said[p] = {"SUCCESS"}
    /\ obstructed' = obstructed \cup {p}
    /\ UNCHANGED <<stored, said>>

Judge(p) ==
    /\ Detector /\ said[p] = {"SUCCESS"}
    /\ Say(p, IF p \in obstructed THEN "neutral" ELSE "scored")

Next == \E p \in Pics : Store(p) \/ Announce(p) \/ Fail(p) \/ Refuse(p) \/ Judge(p)

Spec == Init /\ [][Next]_storyVars
===============================================================================
