-------------------------------- MODULE Assess --------------------------------
(***************************************************************************)
(* The pure judgements of the gateway, each made on every given input:     *)
(* a telemetry message on its way up (_forward_telemetry), a frame with    *)
(* the model's answer (detect_and_report), a mask (build_surface_overlay). *)
(***************************************************************************)
EXTENDS TelemetryValidation, DirtScoring, SurfaceMask, FiniteSets

CONSTANTS Messages,   \* telemetry
          Sights,     \* frames, each with the probabilities the model gives it
          Masks       \* bright pixels

Statistics == [mean : Int, std : Int, blue : Int, red : Int]
Frames     == [width : Nat, height : Nat, roi : Statistics, whole : Statistics]

ASSUME AssessAssumption ==
    /\ Messages \subseteq [Fields -> Reading]
    /\ Sights \subseteq [frame : Frames, p : Probabilities]
    /\ Masks \subseteq SUBSET Pixels

VARIABLES input, judged
vars == <<input, judged>>

NotYet == [of |-> "nothing"]

Init ==
    /\ judged = NotYet
    /\ \/ input \in [of : {"telemetry"}, it : Messages]
       \/ input \in [of : {"sight"}, it : Sights]
       \/ input \in [of : {"mask"}, it : Masks]

JudgeTelemetry ==
    /\ judged = NotYet /\ input.of = "telemetry"
    /\ judged' = [of |-> "telemetry", result |-> Validated(input.it)]
    /\ UNCHANGED input

JudgeSight ==
    /\ judged = NotYet /\ input.of = "sight"
    /\ judged' = [of |-> "sight", result |-> VisionResult(input.it.frame, input.it.p)]
    /\ UNCHANGED input

JudgeMask ==
    /\ judged = NotYet /\ input.of = "mask"
    /\ judged' = [of |-> "mask", result |-> RemoveBusBars(input.it)]
    /\ UNCHANGED input

Next == JudgeTelemetry \/ JudgeSight \/ JudgeMask
Spec == Init /\ [][Next]_vars

Seen == judged.of = "sight"
Sees == Seen /\ judged.result.quality = Usable

-------------------------------------------------------------------------------
(* What validate_telemetry lets through is neither negative nor above its  *)
(* range; not-a-number gets through as the energy and as nothing else.     *)
ForwardedIsSane ==
    judged.of = "telemetry" /\ judged.result.valid =>
        \A f \in Fields :
            LET v == judged.result.data[f] IN
            \/ v.is = "absent" /\ f \notin Angles
            \/ v.is = "number" /\ 0 <= v.n /\ (f # Energy => v.n <= High(f))
            \/ v.is = "nan" /\ f = Energy

(* Clamping loses no reading but the noise just below zero: "angles/LDR/   *)
(* battery are preserved", and so is every current and power from zero up. *)
OnlyNoiseClamped ==
    judged.of = "telemetry" /\ judged.result.valid =>
        \A f \in Fields :
            judged.result.data[f] # input.it[f] =>
                /\ f \in Noisy /\ judged.result.data[f] = Num(0)
                /\ Between(Low(f), input.it[f], -1)

(* The probe of diagnostics, whose constants and code are copies, says of  *)
(* every frame what the gate of vision.py says.                            *)
ProbeAgrees == Seen => ProbeVerdict(input.it.frame) = judged.result.quality

(* The class comes from the dirt level and not from the largest            *)
(* probability; still, a class the model gives 68% or more is reported.    *)
SureIsReported ==
    Sees => \A c \in Labels : input.it.p[c] >= 6800 => judged.result.class = c

(* Moving probability to a dirtier class lowers neither the dirt level nor *)
(* the verdict on cleaning, whatever rounding does.                        *)
Dirtier(p, from, to, d) == [p EXCEPT ![from] = @ - d, ![to] = @ + d]
DirtierIsNotCleaner ==
    Sees =>
        \A pair \in {<<"clean", "slightly_dirty">>, <<"slightly_dirty", "dirty">>} :
            \A d \in {1, 2, 200} :
                LET dirtier == Predict(Dirtier(input.it.p, pair[1], pair[2], d)) IN
                d <= input.it.p[pair[1]] =>
                    /\ dirtier.dirt >= judged.result.dirt
                    /\ judged.result.cleaning => dirtier.cleaning
                    /\ judged.result.class = "dirty" => dirtier.class = "dirty"

(* Two limits that are written apart, of the class and of cleaning: a      *)
(* dirty panel is always to be cleaned, a clean or unusable one never.     *)
CleaningFollowsClass ==
    Seen => /\ judged.result.class = "dirty" => judged.result.cleaning
            /\ judged.result.class \in {"clean", NoClass} => ~judged.result.cleaning

(* _remove_bus_bars: "Compact deposits match neither line kernel, so they  *)
(* survive": a pixel whose row and column are both interrupted within the  *)
(* length of the kernel stays in the mask.                                 *)
CompactIn(mask, q) ==
    /\ \E a, b \in Columns : /\ a < q[1] /\ q[1] < b /\ b - a <= 2 * HHalf + 1
                             /\ <<a, q[2]>> \notin mask /\ <<b, q[2]>> \notin mask
    /\ \E a, b \in Rows : /\ a < q[2] /\ q[2] < b /\ b - a <= 2 * VHalf + 1
                          /\ <<q[1], a>> \notin mask /\ <<q[1], b>> \notin mask
CompactDepositsSurvive ==
    judged.of = "mask" =>
        \A q \in input.it : CompactIn(input.it, q) => q \in judged.result

(* What the openings remove: the straight runs as long as their kernels,   *)
(* on a bar or off, and at the border also those longer than half of one   *)
(* (the docstring does not say so: OnlyFullRunsRemoved); no pixel more.    *)
Within(k, i, j) == (i <= k /\ k <= j) \/ (j <= k /\ k <= i)
RowRun(mask, q) ==
    {n \in Columns : \A k \in Columns : Within(k, n, q[1]) => <<k, q[2]>> \in mask}
ColumnRun(mask, q) ==
    {n \in Rows : \A k \in Rows : Within(k, n, q[2]) => <<q[1], k>> \in mask}
IsLine(run, half, last) ==
    \/ Cardinality(run) > 2 * half
    \/ Cardinality(run) > half /\ (0 \in run \/ last \in run)
    \/ {0, last} \subseteq run
OnlyRunsRemoved ==
    judged.of = "mask" =>
        judged.result =
            {q \in input.it : /\ ~IsLine(RowRun(input.it, q), HHalf, Width - 1)
                              /\ ~IsLine(ColumnRun(input.it, q), VHalf, Height - 1)}

(* _remove_bus_bars: the opening "keeps only horizontal runs at least      *)
(* config.SURFACE_HLINE_LENGTH px long", likewise vertical ones, and these *)
(* are what is subtracted.                                                 *)
OnlyFullRunsRemoved ==
    judged.of = "mask" =>
        \A q \in input.it \ judged.result :
            \/ Cardinality(RowRun(input.it, q)) > 2 * HHalf
            \/ Cardinality(ColumnRun(input.it, q)) > 2 * VHalf
===============================================================================
