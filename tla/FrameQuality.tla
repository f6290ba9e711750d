----------------------------- MODULE FrameQuality -----------------------------
(***************************************************************************)
(* The quality gate of vision.py and the probe in diagnostics that is      *)
(* meant to show what the gate sees.  A frame is its size and the          *)
(* statistics of its region of interest and of the whole.                  *)
(***************************************************************************)
EXTENDS Integers

Usable == "usable"

RoiX == 440
RoiY == 40
RoiW == 1850
RoiH == 1220

(* The region, or the whole frame if the region does not fit. *)
CropToRoi_StrictFit(frame) ==
    IF RoiX + RoiW >= frame.width \/ RoiY + RoiH >= frame.height
    THEN frame.whole ELSE frame.roi
CropToRoi(frame) ==
    IF RoiX + RoiW > frame.width \/ RoiY + RoiH > frame.height
    THEN frame.whole ELSE frame.roi

MinMean == 30
MaxMean == 220
RedDominance == 25
MinStd == 15

CheckFrameQuality(frame) ==
    LET crop == CropToRoi(frame) IN
    CASE crop.mean < MinMean                        -> "too_dark"
      [] crop.mean > MaxMean                        -> "too_bright"
      [] /\ crop.mean \in MinMean..MaxMean
         /\ crop.red - crop.blue > RedDominance     -> "not_panel"
      [] /\ crop.mean \in MinMean..MaxMean
         /\ crop.red - crop.blue <= RedDominance
         /\ crop.std < MinStd                       -> "low_detail"
      [] OTHER                                      -> Usable

(* quality_probe.py has constants, crop and conditions of its own. *)
ProbeVerdict(frame) ==
    LET crop == IF RoiX + RoiW > frame.width \/ RoiY + RoiH > frame.height
                THEN frame.whole ELSE frame.roi IN
    IF crop.mean < 30 THEN "too_dark"
    ELSE IF crop.mean > 220 THEN "too_bright"
    ELSE IF crop.red - crop.blue > 25 THEN "not_panel"
    ELSE IF crop.std < 15 THEN "low_detail"
    ELSE Usable
===============================================================================
