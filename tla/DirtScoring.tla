------------------------------ MODULE DirtScoring ------------------------------
(***************************************************************************)
(* vision.py: from the three probabilities of the model to the report.     *)
(* Probabilities are in ten-thousandths, percentages in hundredths.        *)
(***************************************************************************)
EXTENDS FrameQuality

Labels == {"clean", "slightly_dirty", "dirty"}
NoClass == "none"
One == 10000

(* The output of the softmax layer. *)
Probabilities ==
    {p \in [Labels -> 0..One] : p["clean"] + p["slightly_dirty"] + p["dirty"] = One}

(* round: half to even. *)
Half(n) == IF n % 4 = 3 THEN n \div 2 + 1 ELSE n \div 2

DirtLevel_EqualWeights(p) == Half(p["slightly_dirty"] + p["dirty"])
DirtLevel_Swapped(p) == Half(2 * p["slightly_dirty"] + p["dirty"])
DirtLevel(p) == Half(p["slightly_dirty"] + 2 * p["dirty"])

CleanMax    == 3300
SlightlyMax == 6600
CleaningMin == 6600

ClassOf_Argmax(p) ==
    CHOOSE c \in Labels : \A d \in Labels : p[c] >= p[d]
ClassOf(p) ==
    IF DirtLevel(p) <= CleanMax THEN "clean"
    ELSE IF DirtLevel(p) <= SlightlyMax THEN "slightly_dirty"
    ELSE "dirty"

Confidence(p) == CHOOSE n \in {p[c] : c \in Labels} : \A c \in Labels : n >= p[c]

Predict(p) ==
    [class |-> ClassOf(p), dirt |-> DirtLevel(p), cleanliness |-> One - DirtLevel(p),
     cleaning |-> DirtLevel(p) >= CleaningMin, confidence |-> Confidence(p),
     quality |-> Usable]

Neutral(reason) ==
    [class |-> NoClass, dirt |-> 0, cleanliness |-> 0, cleaning |-> FALSE,
     confidence |-> 0, quality |-> reason]

(* detect_and_report: the model sees only what passes the gate. *)
VisionResult(frame, p) ==
    IF CheckFrameQuality(frame) = Usable THEN Predict(p)
    ELSE Neutral(CheckFrameQuality(frame))
===============================================================================
