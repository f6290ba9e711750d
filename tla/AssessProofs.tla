----------------------------- MODULE AssessProofs -----------------------------
(* The judgements of Assess, for every message, frame, model output and mask, *)
(* and any size of panel and kernels.                                         *)
EXTENDS Assess, FiniteSetTheorems, WellFoundedInduction, TLAPS

(* A judgement is that of its input, made by the code. *)
JudgedInput ==
    \/ judged = NotYet /\ \/ input \in [of : {"telemetry"}, it : Messages]
                          \/ input \in [of : {"sight"}, it : Sights]
                          \/ input \in [of : {"mask"}, it : Masks]
    \/ /\ judged = [of |-> "telemetry", result |-> Validated(input.it)]
       /\ input.it \in Messages
    \/ /\ judged = [of |-> "sight", result |-> VisionResult(input.it.frame, input.it.p)]
       /\ input.it \in Sights
    \/ /\ judged = [of |-> "mask", result |-> RemoveBusBars(input.it)]
       /\ input.it \in Masks

LEMMA Judging == Spec => []JudgedInput
<1>1. Init => JudgedInput
  BY DEF Init, JudgedInput
<1>2. JudgedInput /\ [Next]_vars => JudgedInput'
  BY DEF JudgedInput, Next, JudgeTelemetry, JudgeSight, JudgeMask, vars, NotYet
<1> QED  BY <1>1, <1>2, PTL DEF Spec

-------------------------------------------------------------------------------
(* Telemetry. *)

LEMMA TelemetryJudged ==
    ASSUME JudgedInput, judged.of = "telemetry"
    PROVE  /\ input.it \in [Fields -> Reading]
           /\ judged.result.valid <=> \A f \in Fields : Accepts(f, input.it[f])
           /\ \A f \in Fields : judged.result.data[f] = Clamped(f, input.it[f])
  BY AssessAssumption DEF JudgedInput, NotYet, Validated

(* Whatever the ESP32 sends, no negative and no excessive reading is       *)
(* forwarded, and not-a-number only as the energy (telemetry.py).          *)
THEOREM TelemetryIsSane == Spec => []ForwardedIsSane
<1>1. ASSUME JudgedInput, judged.of = "telemetry", judged.result.valid, NEW f \in Fields
      PROVE  LET v == judged.result.data[f] IN
             \/ v.is = "absent" /\ f \notin Angles
             \/ v.is = "number" /\ 0 <= v.n /\ (f # Energy => v.n <= High(f))
             \/ v.is = "nan" /\ f = Energy
  <2> DEFINE v == input.it[f]
  <2>1. /\ v \in Reading /\ Accepts(f, v)
        /\ judged.result.data[f] = Clamped(f, v)
    BY <1>1, TelemetryJudged
  <2>2. Energy \notin Noisy /\ f \in Angles \cup Optional \cup Noisy \cup {Energy}
    BY DEF Energy, Noisy, Fields
  <2>3. CASE Below(v, 0) /\ f \in Noisy
    <3>1. judged.result.data[f] = Num(0)
      BY <2>1, <2>3 DEF Clamped, ClampFloor
    <3>2. 0 <= High(f)
      BY <2>3 DEF High, Noisy, Angles
    <3> QED  BY <3>1, <3>2 DEF Num
  <2>4. CASE ~(Below(v, 0) /\ f \in Noisy)
    <3>1. judged.result.data[f] = v
      BY <2>1, <2>4 DEF Clamped, ClampFloor
    <3>2. f \notin Noisy => Low(f) = 0
      BY DEF Low
    <3> QED
      BY <2>1, <2>2, <2>4, <3>1, <3>2 DEF Accepts, Between, Below, IsNumber, Reading
  <2> QED  BY <2>3, <2>4
<1>2. JudgedInput => ForwardedIsSane
  BY <1>1 DEF ForwardedIsSane
<1> QED  BY Judging, <1>2, PTL

(* Clamping changes the noise below zero of current and power only.        *)
THEOREM OnlyNoiseIsLost == Spec => []OnlyNoiseClamped
<1>1. ASSUME JudgedInput, judged.of = "telemetry", judged.result.valid, NEW f \in Fields,
             judged.result.data[f] # input.it[f]
      PROVE  /\ f \in Noisy /\ judged.result.data[f] = Num(0)
             /\ Between(Low(f), input.it[f], -1)
  <2>1. /\ input.it[f] \in Reading /\ Accepts(f, input.it[f])
        /\ judged.result.data[f] = Clamped(f, input.it[f])
    BY <1>1, TelemetryJudged
  <2>2. f \in Noisy /\ Below(input.it[f], 0) /\ judged.result.data[f] = Num(0)
    BY <1>1, <2>1 DEF Clamped, ClampFloor
  <2>3. Between(Low(f), input.it[f], High(f))
    BY <2>1, <2>2 DEF Accepts, Below, Energy, Noisy
  <2> QED  BY <2>1, <2>2, <2>3 DEF Between, Below, Reading
<1>2. JudgedInput => OnlyNoiseClamped
  BY <1>1 DEF OnlyNoiseClamped
<1> QED  BY Judging, <1>2, PTL

-------------------------------------------------------------------------------
(* Frames and probabilities. *)

LEMMA SightJudged ==
    ASSUME JudgedInput, Seen
    PROVE  /\ judged.result = VisionResult(input.it.frame, input.it.p)
           /\ input.it.frame \in Frames
           /\ input.it.p \in Probabilities
  BY AssessAssumption DEF JudgedInput, NotYet, Seen

LEMMA SightUsable ==
    ASSUME JudgedInput, Sees
    PROVE  /\ judged.result = Predict(input.it.p)
           /\ input.it.p \in Probabilities
<1>1. judged.result = VisionResult(input.it.frame, input.it.p)
  BY SightJudged DEF Sees
<1>2. CASE CheckFrameQuality(input.it.frame) = Usable
  BY <1>1, <1>2, SightJudged DEF VisionResult, Sees
<1>3. CASE CheckFrameQuality(input.it.frame) # Usable
  BY <1>1, <1>3 DEF VisionResult, Neutral, Sees
<1> QED  BY <1>2, <1>3

(* The probe's copy of the gate agrees with the gate on every frame.       *)
THEOREM ProbeTellsTheGate == Spec => []ProbeAgrees
<1>1. ASSUME NEW frame \in Frames
      PROVE  ProbeVerdict(frame) = CheckFrameQuality(frame)
  <2> DEFINE crop == CropToRoi(frame)
  <2>1. crop \in Statistics
    BY <1>1 DEF CropToRoi, Frames
  <2>2. /\ crop.mean \in Int /\ crop.std \in Int
        /\ crop.red - crop.blue \in Int
    BY <2>1 DEF Statistics
  <2>3. (IF RoiX + RoiW > frame.width \/ RoiY + RoiH > frame.height
         THEN frame.whole ELSE frame.roi) = crop
    BY DEF CropToRoi
  <2> HIDE DEF crop
  <2> QED
    BY <2>2, <2>3 DEF ProbeVerdict, CheckFrameQuality, MinMean, MaxMean, RedDominance, MinStd, crop
<1>2. ASSUME NEW frame \in Frames, NEW p
      PROVE  VisionResult(frame, p).quality = CheckFrameQuality(frame)
  BY DEF VisionResult, Predict, Neutral
<1>3. JudgedInput => ProbeAgrees
  BY <1>1, <1>2, SightJudged DEF ProbeAgrees
<1> QED  BY Judging, <1>3, PTL

LEMMA HalfRounds ==
    ASSUME NEW n \in Nat
    PROVE  /\ Half(n) \in Nat
           /\ n - 1 <= 2 * Half(n) /\ 2 * Half(n) <= n + 1
  BY DEF Half

LEMMA HalfMonotone ==
    ASSUME NEW m \in Nat, NEW n \in Nat, m <= n
    PROVE  Half(m) <= Half(n)
  BY DEF Half

LEMMA ProbabilitiesAre ==
    ASSUME NEW p \in Probabilities
    PROVE  /\ p \in [Labels -> Nat]
           /\ p["clean"] \in Nat /\ p["slightly_dirty"] \in Nat /\ p["dirty"] \in Nat
           /\ p["clean"] + p["slightly_dirty"] + p["dirty"] = 10000
<1>1. /\ p \in [Labels -> 0..One]
      /\ p["clean"] + p["slightly_dirty"] + p["dirty"] = One
  BY DEF Probabilities
<1>2. "clean" \in Labels /\ "slightly_dirty" \in Labels /\ "dirty" \in Labels
  BY DEF Labels
<1>3. 0..One \subseteq Nat
  BY DEF One
<1>4. p \in [Labels -> Nat]
  BY <1>1, <1>3
<1> QED  BY <1>1, <1>2, <1>4 DEF One

LEMMA DirtRounds ==
    ASSUME NEW p \in Probabilities
    PROVE  /\ DirtLevel(p) \in Nat
           /\ p["slightly_dirty"] + 2 * p["dirty"] - 1 <= 2 * DirtLevel(p)
           /\ 2 * DirtLevel(p) <= p["slightly_dirty"] + 2 * p["dirty"] + 1
<1> DEFINE n == p["slightly_dirty"] + 2 * p["dirty"]
<1>1. n \in Nat
  BY ProbabilitiesAre
<1>2. DirtLevel(p) = Half(n)
  BY DEF DirtLevel
<1> HIDE DEF n
<1>3. DirtLevel(p) \in Nat /\ n - 1 <= 2 * DirtLevel(p) /\ 2 * DirtLevel(p) <= n + 1
  BY <1>1, <1>2, HalfRounds
<1> QED  BY <1>1, <1>3, ProbabilitiesAre DEF n

(* What a probability of 68% decides.                                      *)
THEOREM SureClassIsReported == Spec => []SureIsReported
<1>1. ASSUME NEW p \in Probabilities, NEW c \in Labels, p[c] >= 6800
      PROVE  ClassOf(p) = c
  <2> DEFINE s == p["slightly_dirty"]
             d == p["dirty"]
             k == p["clean"]
  <2>1. s \in Nat /\ d \in Nat /\ k \in Nat /\ k + s + d = 10000
    BY ProbabilitiesAre
  <2>2. DirtLevel(p) \in Nat /\ s + 2 * d - 1 <= 2 * DirtLevel(p)
        /\ 2 * DirtLevel(p) <= s + 2 * d + 1
    BY DirtRounds
  <2>3. c = "clean" \/ c = "slightly_dirty" \/ c = "dirty"
    BY DEF Labels
  <2> QED
    BY <1>1, <2>1, <2>2, <2>3 DEF ClassOf, CleanMax, SlightlyMax
<1>2. JudgedInput => SureIsReported
  BY <1>1, SightUsable DEF SureIsReported, Predict
<1> QED  BY Judging, <1>2, PTL

LEMMA SumIsWhole ==
    ASSUME NEW q \in [Labels -> Int],
           0 <= q["clean"], 0 <= q["slightly_dirty"], 0 <= q["dirty"],
           q["clean"] + q["slightly_dirty"] + q["dirty"] = 10000
    PROVE  q \in Probabilities
<1>1. q["clean"] \in Int /\ q["slightly_dirty"] \in Int /\ q["dirty"] \in Int
  BY DEF Labels
<1>2. /\ q["clean"] <= One /\ q["slightly_dirty"] <= One /\ q["dirty"] <= One
      /\ q["clean"] + q["slightly_dirty"] + q["dirty"] = One
      /\ One \in Int
  BY <1>1 DEF One
<1>3. /\ q["clean"] \in 0..One /\ q["slightly_dirty"] \in 0..One
      /\ q["dirty"] \in 0..One
  BY <1>1, <1>2
<1>4. \A c \in Labels : q[c] \in 0..One
  BY <1>3 DEF Labels
<1>5. q \in [Labels -> 0..One]
  BY <1>4
<1> QED  BY <1>2, <1>5 DEF Probabilities

(* vision.py is monotone in the model's answer: for any two of them, one   *)
(* with no less on dirty and no more on clean is given no lower level, no  *)
(* cleaner class, and is cleaned if the other is.                          *)
THEOREM DominatedIsNotCleaner ==
    ASSUME NEW p \in Probabilities, NEW q \in Probabilities,
           p["dirty"] <= q["dirty"], q["clean"] <= p["clean"]
    PROVE  /\ Predict(p).dirt <= Predict(q).dirt
           /\ Predict(p).cleaning => Predict(q).cleaning
           /\ Predict(p).class = "dirty" => Predict(q).class = "dirty"
           /\ Predict(q).class = "clean" => Predict(p).class = "clean"
<1>1. /\ p["slightly_dirty"] + 2 * p["dirty"] \in Nat
      /\ q["slightly_dirty"] + 2 * q["dirty"] \in Nat
      /\ p["slightly_dirty"] + 2 * p["dirty"] <= q["slightly_dirty"] + 2 * q["dirty"]
  <2>1. /\ p["clean"] \in Nat /\ p["slightly_dirty"] \in Nat /\ p["dirty"] \in Nat
        /\ p["clean"] + p["slightly_dirty"] + p["dirty"] = 10000
    BY ProbabilitiesAre
  <2>2. /\ q["clean"] \in Nat /\ q["slightly_dirty"] \in Nat /\ q["dirty"] \in Nat
        /\ q["clean"] + q["slightly_dirty"] + q["dirty"] = 10000
    BY ProbabilitiesAre
  <2> QED  BY <2>1, <2>2
<1>2. DirtLevel(p) <= DirtLevel(q) /\ DirtLevel(p) \in Nat /\ DirtLevel(q) \in Nat
  BY <1>1, HalfMonotone, HalfRounds DEF DirtLevel
<1>3. /\ DirtLevel(p) >= CleaningMin => DirtLevel(q) >= CleaningMin
      /\ ClassOf(p) = "dirty" => ClassOf(q) = "dirty"
      /\ ClassOf(q) = "clean" => ClassOf(p) = "clean"
  BY <1>2 DEF CleaningMin, ClassOf, CleanMax, SlightlyMax
<1>4. /\ Predict(q).dirt = DirtLevel(q) /\ Predict(p).dirt = DirtLevel(p)
      /\ Predict(q).class = ClassOf(q) /\ Predict(p).class = ClassOf(p)
      /\ Predict(q).cleaning = (DirtLevel(q) >= CleaningMin)
      /\ Predict(p).cleaning = (DirtLevel(p) >= CleaningMin)
  BY DEF Predict
<1> QED  BY <1>2, <1>3, <1>4

(* Rounding does not turn a step towards dirt into one towards clean.      *)
THEOREM MoreDirtIsNotCleaner == Spec => []DirtierIsNotCleaner
<1>1. ASSUME NEW p \in Probabilities, NEW d \in Nat,
             NEW pair \in {<<"clean", "slightly_dirty">>, <<"slightly_dirty", "dirty">>},
             d <= p[pair[1]]
      PROVE  LET q == Dirtier(p, pair[1], pair[2], d) IN
             /\ q \in Probabilities
             /\ p["dirty"] <= q["dirty"] /\ q["clean"] <= p["clean"]
  <2>1. /\ p \in [Labels -> Nat]
        /\ p["slightly_dirty"] \in Nat /\ p["dirty"] \in Nat /\ p["clean"] \in Nat
        /\ p["clean"] + p["slightly_dirty"] + p["dirty"] = 10000
    BY ProbabilitiesAre
  <2> DEFINE q == Dirtier(p, pair[1], pair[2], d)
  <2>2. /\ q \in [Labels -> Int]
        /\ \/ /\ q["clean"] = p["clean"] - d /\ d <= p["clean"]
              /\ q["slightly_dirty"] = p["slightly_dirty"] + d /\ q["dirty"] = p["dirty"]
           \/ /\ q["clean"] = p["clean"] /\ q["dirty"] = p["dirty"] + d
              /\ q["slightly_dirty"] = p["slightly_dirty"] - d /\ d <= p["slightly_dirty"]
    <3>1. CASE pair = <<"clean", "slightly_dirty">>
      BY <1>1, <2>1, <3>1 DEF Dirtier, Labels
    <3>2. CASE pair = <<"slightly_dirty", "dirty">>
      BY <1>1, <2>1, <3>2 DEF Dirtier, Labels
    <3> QED  BY <3>1, <3>2
  <2> HIDE DEF q
  <2>3. /\ q["clean"] \in Int /\ q["slightly_dirty"] \in Int /\ q["dirty"] \in Int
        /\ p["dirty"] <= q["dirty"] /\ q["clean"] <= p["clean"]
        /\ 0 <= q["clean"] /\ 0 <= q["slightly_dirty"] /\ 0 <= q["dirty"]
        /\ q["clean"] + q["slightly_dirty"] + q["dirty"] = 10000
    <3>1. /\ q["clean"] \in Int /\ q["slightly_dirty"] \in Int /\ q["dirty"] \in Int
          /\ d \in Nat
      BY <1>1, <2>2 DEF Labels
    <3> QED  BY <2>1, <2>2, <3>1
  <2>4. q \in Probabilities
    BY <2>2, <2>3, SumIsWhole
  <2> QED  BY <2>3, <2>4 DEF q
<1>2. ASSUME JudgedInput, Sees, NEW d \in Nat,
             NEW pair \in {<<"clean", "slightly_dirty">>, <<"slightly_dirty", "dirty">>},
             d <= input.it.p[pair[1]]
      PROVE  LET dirtier == Predict(Dirtier(input.it.p, pair[1], pair[2], d)) IN
             /\ dirtier.dirt >= judged.result.dirt
             /\ judged.result.cleaning => dirtier.cleaning
             /\ judged.result.class = "dirty" => dirtier.class = "dirty"
  <2> DEFINE p == input.it.p
             q == Dirtier(p, pair[1], pair[2], d)
  <2>1. p \in Probabilities /\ judged.result = Predict(p)
    BY <1>2, SightUsable
  <2>2. q \in Probabilities /\ p["dirty"] <= q["dirty"] /\ q["clean"] <= p["clean"]
    BY <1>1, <1>2, <2>1
  <2> HIDE DEF p, q
  <2>3. DirtLevel(p) \in Nat /\ DirtLevel(q) \in Nat
    BY <2>1, <2>2, DirtRounds
  <2>4. Predict(q).dirt = DirtLevel(q) /\ Predict(p).dirt = DirtLevel(p)
    BY DEF Predict
  <2>5. /\ Predict(q).dirt >= Predict(p).dirt
        /\ Predict(p).cleaning => Predict(q).cleaning
        /\ Predict(p).class = "dirty" => Predict(q).class = "dirty"
    BY <2>1, <2>2, <2>3, <2>4, DominatedIsNotCleaner
  <2> QED  BY <2>1, <2>5 DEF p, q
<1>3. JudgedInput => DirtierIsNotCleaner
  BY <1>2 DEF DirtierIsNotCleaner
<1> QED  BY Judging, <1>3, PTL

(* The two limits agree: dirty is cleaned, clean and unusable are not.     *)
THEOREM CleaningMatchesClass == Spec => []CleaningFollowsClass
<1>1. ASSUME NEW p \in Probabilities
      PROVE  /\ Predict(p).class = "dirty" => Predict(p).cleaning
             /\ Predict(p).class \in {"clean", NoClass} => ~Predict(p).cleaning
  <2>1. DirtLevel(p) \in Nat
    BY DirtRounds
  <2>2. /\ ClassOf(p) = "dirty" => DirtLevel(p) >= CleaningMin
        /\ ClassOf(p) \in {"clean", NoClass} => ~(DirtLevel(p) >= CleaningMin)
    BY <2>1 DEF ClassOf, CleanMax, SlightlyMax, CleaningMin, NoClass
  <2> QED  BY <2>2 DEF Predict
<1>2. ASSUME NEW reason
      PROVE  Neutral(reason).class = NoClass /\ Neutral(reason).cleaning = FALSE
  BY DEF Neutral
<1>3. ASSUME JudgedInput, Seen
      PROVE  /\ judged.result.class = "dirty" => judged.result.cleaning
             /\ judged.result.class \in {"clean", NoClass} => ~judged.result.cleaning
  <2>1. CASE CheckFrameQuality(input.it.frame) = Usable
    BY <1>1, <1>3, <2>1, SightJudged DEF VisionResult
  <2>2. CASE CheckFrameQuality(input.it.frame) # Usable
    BY <1>2, <1>3, <2>2, SightJudged DEF VisionResult, NoClass
  <2> QED  BY <2>1, <2>2
<1>4. JudgedInput => CleaningFollowsClass
  BY <1>3 DEF CleaningFollowsClass
<1> QED  BY Judging, <1>4, PTL

-------------------------------------------------------------------------------
(* Masks.  A kernel that covers a pixel between two gaps no further apart  *)
(* than the kernel is long covers one of the gaps.                         *)
LEMMA KernelCoversGap ==
    ASSUME NEW a \in Int, NEW b \in Int, NEW c \in Int, NEW m \in Int, NEW half \in Nat,
           a < c, c < b, b - a <= 2 * half + 1, Abs(m - c) <= half
    PROVE  Abs(a - m) <= half \/ Abs(b - m) <= half
  BY DEF Abs

THEOREM DepositsSurvive == Spec => []CompactDepositsSurvive
<1>1. ASSUME NEW mask \in SUBSET Pixels, NEW q \in mask, CompactIn(mask, q)
      PROVE  q \notin Opened(mask, HLine)
  <2> SUFFICES ASSUME NEW r \in HLine[q], HLine[r] \subseteq mask, r \in Pixels
               PROVE  FALSE
    BY DEF Opened, Dilated, Eroded
  <2>1. q \in Pixels /\ q[1] \in Columns /\ q[2] \in Rows /\ r[1] \in Columns
    BY DEF Pixels
  <2>2. r[2] = q[2] /\ Abs(r[1] - q[1]) <= HHalf
    BY <2>1 DEF HLine
  <2>3. PICK a \in Columns, b \in Columns :
            /\ a < q[1] /\ q[1] < b /\ b - a <= 2 * HHalf + 1
            /\ <<a, q[2]>> \notin mask /\ <<b, q[2]>> \notin mask
    BY <1>1 DEF CompactIn
  <2>4. a \in Int /\ b \in Int /\ q[1] \in Int /\ r[1] \in Int /\ HHalf \in Nat
    BY <2>1, <2>3, SurfaceAssumption DEF Columns
  <2>5. Abs(a - r[1]) <= HHalf \/ Abs(b - r[1]) <= HHalf
    BY <2>2, <2>3, <2>4, KernelCoversGap
  <2>6. <<a, q[2]>> \in Pixels /\ <<b, q[2]>> \in Pixels
    BY <2>1, <2>3 DEF Pixels
  <2>7. <<a, q[2]>> \in HLine[r] \/ <<b, q[2]>> \in HLine[r]
    BY <2>2, <2>5, <2>6 DEF HLine
  <2> QED  BY <2>3, <2>7
<1>2. ASSUME NEW mask \in SUBSET Pixels, NEW q \in mask, CompactIn(mask, q)
      PROVE  q \notin Opened(mask, VLine)
  <2> SUFFICES ASSUME NEW r \in VLine[q], VLine[r] \subseteq mask, r \in Pixels
               PROVE  FALSE
    BY DEF Opened, Dilated, Eroded
  <2>1. q \in Pixels /\ q[1] \in Columns /\ q[2] \in Rows /\ r[2] \in Rows
    BY DEF Pixels
  <2>2. r[1] = q[1] /\ Abs(r[2] - q[2]) <= VHalf
    BY <2>1 DEF VLine
  <2>3. PICK a \in Rows, b \in Rows :
            /\ a < q[2] /\ q[2] < b /\ b - a <= 2 * VHalf + 1
            /\ <<q[1], a>> \notin mask /\ <<q[1], b>> \notin mask
    BY <1>2 DEF CompactIn
  <2>4. a \in Int /\ b \in Int /\ q[2] \in Int /\ r[2] \in Int /\ VHalf \in Nat
    BY <2>1, <2>3, SurfaceAssumption DEF Rows
  <2>5. Abs(a - r[2]) <= VHalf \/ Abs(b - r[2]) <= VHalf
    BY <2>2, <2>3, <2>4, KernelCoversGap
  <2>6. <<q[1], a>> \in Pixels /\ <<q[1], b>> \in Pixels
    BY <2>1, <2>3 DEF Pixels
  <2>7. <<q[1], a>> \in VLine[r] \/ <<q[1], b>> \in VLine[r]
    BY <2>2, <2>5, <2>6 DEF VLine
  <2> QED  BY <2>3, <2>7
<1>3. ASSUME JudgedInput, judged.of = "mask"
      PROVE  input.it \in SUBSET Pixels /\ judged.result = RemoveBusBars(input.it)
  BY <1>3, AssessAssumption DEF JudgedInput, NotYet
<1>4. JudgedInput => CompactDepositsSurvive
  BY <1>1, <1>2, <1>3 DEF CompactDepositsSurvive, RemoveBusBars
<1> QED  BY Judging, <1>4, PTL
-------------------------------------------------------------------------------
(* One line of a mask: the set of its bright places among 0..last.          *)

LEMMA LeastPlace ==
    ASSUME NEW T \in SUBSET Nat, T # {}
    PROVE  \E x \in T : \A y \in T : x <= y
<1>1. PICK x \in T : \A y \in T : ~(<<y, x>> \in OpToRel(<, Nat))
  BY NatLessThanWellFounded, WFMin
<1>2. \A y \in T : ~(y < x)
  BY <1>1 DEF OpToRel
<1> QED  BY <1>2

LEMMA GreatestPlace ==
    ASSUME NEW m \in Nat, NEW T \in SUBSET (0..m), T # {}
    PROVE  \E x \in T : \A y \in T : y <= x
<1> DEFINE U == {m - y : y \in T}
<1>1. U \in SUBSET Nat /\ U # {}
  <2>1. \A y \in T : m - y \in Nat
    OBVIOUS
  <2> QED  BY <2>1
<1>2. PICK u \in U : \A w \in U : u <= w
  BY <1>1, LeastPlace
<1>3. PICK x \in T : u = m - x
  OBVIOUS
<1>4. ASSUME NEW y \in T PROVE y <= x
  <2>1. m - y \in U
    OBVIOUS
  <2>2. m - x <= m - y
    BY <1>2, <1>3, <2>1
  <2> QED  BY <2>2
<1> QED  BY <1>4

(* The dark places next to q, or the borders.                               *)
LEMMA NearestGaps ==
    ASSUME NEW last \in Nat, NEW M \in SUBSET (0..last), NEW q \in M
    PROVE  \E a \in -1..(q - 1), b \in (q + 1)..(last + 1) :
              /\ a = -1 \/ a \notin M
              /\ b = last + 1 \/ b \notin M
              /\ \A k \in 0..last : a < k /\ k < b => k \in M
<1> DEFINE Left  == {k \in 0..last : k < q /\ k \notin M}
           Right == {k \in 0..last : q < k /\ k \notin M}
<1>1. \E a \in -1..(q - 1) : /\ a = -1 \/ a \notin M
                             /\ \A k \in 0..last : a < k /\ k <= q => k \in M
  <2>1. CASE Left = {}
    BY <2>1
  <2>2. CASE Left # {}
    <3>1. PICK a \in Left : \A y \in Left : y <= a
      BY <2>2, GreatestPlace
    <3>2. a \in -1..(q - 1) /\ a \notin M
      OBVIOUS
    <3>3. \A k \in 0..last : a < k /\ k <= q => k \in M
      BY <3>1
    <3> QED  BY <3>2, <3>3
  <2> QED  BY <2>1, <2>2
<1>2. \E b \in (q + 1)..(last + 1) : /\ b = last + 1 \/ b \notin M
                                     /\ \A k \in 0..last : q <= k /\ k < b => k \in M
  <2>1. CASE Right = {}
    BY <2>1
  <2>2. CASE Right # {}
    <3>1. PICK b \in Right : \A y \in Right : b <= y
      <4>1. Right \in SUBSET Nat
        OBVIOUS
      <4> QED  BY <2>2, <4>1, LeastPlace
    <3>2. b \in (q + 1)..(last + 1) /\ b \notin M
      OBVIOUS
    <3>3. \A k \in 0..last : q <= k /\ k < b => k \in M
      BY <3>1
    <3> QED  BY <3>2, <3>3
  <2> QED  BY <2>1, <2>2
<1>3. PICK a \in -1..(q - 1) : /\ a = -1 \/ a \notin M
                               /\ \A k \in 0..last : a < k /\ k <= q => k \in M
  BY <1>1
<1>4. PICK b \in (q + 1)..(last + 1) : /\ b = last + 1 \/ b \notin M
                                       /\ \A k \in 0..last : q <= k /\ k < b => k \in M
  BY <1>2
<1>5. \A k \in 0..last : a < k /\ k < b => k \in M
  BY <1>3, <1>4
<1> QED  BY <1>3, <1>4, <1>5

(* A kernel that covers q fits between the gaps iff they are far enough     *)
(* apart; what is outside the line does not count.                          *)
LEMMA KernelFits ==
    ASSUME NEW last \in Nat, NEW half \in Nat, NEW q \in 0..last,
           NEW a \in -1..(q - 1), NEW b \in (q + 1)..(last + 1)
    PROVE  (\E r \in 0..last : /\ Abs(r - q) <= half
                               /\ a = -1 \/ a < r - half
                               /\ b = last + 1 \/ r + half < b)
           <=> \/ b - a - 1 > 2 * half
               \/ b - a - 1 > half /\ (a = -1 \/ b = last + 1)
               \/ a = -1 /\ b = last + 1
<1> DEFINE Fits(r) == /\ Abs(r - q) <= half
                      /\ a = -1 \/ a < r - half
                      /\ b = last + 1 \/ r + half < b
<1>1. ASSUME NEW r \in 0..last, Fits(r)
      PROVE  \/ b - a - 1 > 2 * half
             \/ b - a - 1 > half /\ (a = -1 \/ b = last + 1)
             \/ a = -1 /\ b = last + 1
  BY <1>1 DEF Abs
<1>2. ASSUME b - a - 1 > 2 * half
      PROVE  \E r \in 0..last : Fits(r)
  <2>1. CASE a < q - half /\ q + half < b
    BY <2>1 DEF Abs
  <2>2. CASE q - half <= a
    <3>1. a + 1 + half \in 0..last /\ Fits(a + 1 + half)
      BY <1>2, <2>2 DEF Abs
    <3> QED  BY <3>1
  <2>3. CASE b <= q + half
    <3>1. b - 1 - half \in 0..last /\ Fits(b - 1 - half)
      BY <1>2, <2>3 DEF Abs
    <3> QED  BY <3>1
  <2> QED  BY <2>1, <2>2, <2>3
<1>3. ASSUME b - a - 1 > half, a = -1
      PROVE  \E r \in 0..last : Fits(r)
  <2>1. CASE half <= q
    <3>1. q - half \in 0..last /\ Fits(q - half)
      BY <1>3, <2>1 DEF Abs
    <3> QED  BY <3>1
  <2>2. CASE q < half
    <3>1. 0 \in 0..last /\ Fits(0)
      BY <1>3, <2>2 DEF Abs
    <3> QED  BY <3>1
  <2> QED  BY <2>1, <2>2
<1>4. ASSUME b - a - 1 > half, b = last + 1
      PROVE  \E r \in 0..last : Fits(r)
  <2>1. CASE q + half <= last
    <3>1. q + half \in 0..last /\ Fits(q + half)
      BY <1>4, <2>1 DEF Abs
    <3> QED  BY <3>1
  <2>2. CASE last < q + half
    <3>1. last \in 0..last /\ Fits(last)
      BY <1>4, <2>2 DEF Abs
    <3> QED  BY <3>1
  <2> QED  BY <2>1, <2>2
<1>5. ASSUME a = -1, b = last + 1
      PROVE  Fits(q)
  BY <1>5 DEF Abs
<1> QED  BY <1>1, <1>2, <1>3, <1>4, <1>5

(* The run of q, and the kernel that covers q and nothing dark: an opening  *)
(* keeps q iff its run is a line.                                           *)
Run(M, last, q) == {n \in 0..last : \A k \in 0..last : Within(k, n, q) => k \in M}
Covered(M, last, half, q) ==
    \E r \in 0..last : /\ Abs(r - q) <= half
                       /\ \A k \in 0..last : Abs(k - r) <= half => k \in M

LEMMA RunIsLine ==
    ASSUME NEW last \in Nat, NEW half \in Nat,
           NEW M \in SUBSET (0..last), NEW q \in M
    PROVE  Covered(M, last, half, q) <=> IsLine(Run(M, last, q), half, last)
<1> DEFINE run == Run(M, last, q)
<1>1. PICK a \in -1..(q - 1), b \in (q + 1)..(last + 1) :
          /\ a = -1 \/ a \notin M
          /\ b = last + 1 \/ b \notin M
          /\ \A k \in 0..last : a < k /\ k < b => k \in M
  BY NearestGaps
<1>2. run = (a + 1)..(b - 1)
  <2>1. ASSUME NEW n \in run PROVE n \in (a + 1)..(b - 1)
    <3>1. n \in 0..last /\ \A k \in 0..last : Within(k, n, q) => k \in M
      BY DEF Run
    <3>2. CASE n <= a
      <4>1. a \in 0..last /\ Within(a, n, q)
        BY <3>1, <3>2 DEF Within
      <4> QED  BY <1>1, <3>1, <4>1
    <3>3. CASE b <= n
      <4>1. b \in 0..last /\ Within(b, n, q)
        BY <3>1, <3>3 DEF Within
      <4> QED  BY <1>1, <3>1, <4>1
    <3> QED  BY <3>1, <3>2, <3>3
  <2>2. ASSUME NEW n \in (a + 1)..(b - 1) PROVE n \in run
    BY <1>1 DEF Within, Run
  <2> QED  BY <2>1, <2>2
<1> HIDE DEF run
<1>3. IsLine(run, half, last) <=> \/ b - a - 1 > 2 * half
                                  \/ b - a - 1 > half /\ (a = -1 \/ b = last + 1)
                                  \/ a = -1 /\ b = last + 1
  <2>1. Cardinality(run) = b - a - 1
    <3>1. a + 1 \in Int /\ b - 1 \in Int /\ ~(a + 1 > b - 1)
      OBVIOUS
    <3>2. Cardinality((a + 1)..(b - 1)) = (b - 1) - (a + 1) + 1
      BY <3>1, FS_Interval
    <3> QED  BY <1>2, <3>2
  <2>2. 0 \in run <=> a = -1
    BY <1>2
  <2>3. last \in run <=> b = last + 1
    BY <1>2
  <2> QED  BY <2>1, <2>2, <2>3 DEF IsLine
<1>4. ASSUME NEW r \in 0..last, Abs(r - q) <= half
      PROVE  (\A k \in 0..last : Abs(k - r) <= half => k \in M)
             <=> (a = -1 \/ a < r - half) /\ (b = last + 1 \/ r + half < b)
  <2>1. ASSUME \A k \in 0..last : Abs(k - r) <= half => k \in M, a # -1
        PROVE  a < r - half
    <3> SUFFICES ASSUME r - half <= a PROVE FALSE
      OBVIOUS
    <3>1. CASE a <= r + half
      BY <1>1, <2>1, <3>1 DEF Abs
    <3>2. CASE r + half < a
      BY <1>4, <3>2 DEF Abs
    <3> QED  BY <3>1, <3>2
  <2>2. ASSUME \A k \in 0..last : Abs(k - r) <= half => k \in M, b # last + 1
        PROVE  r + half < b
    <3> SUFFICES ASSUME b <= r + half PROVE FALSE
      OBVIOUS
    <3>1. CASE r - half <= b
      BY <1>1, <2>2, <3>1 DEF Abs
    <3>2. CASE b < r - half
      BY <1>4, <3>2 DEF Abs
    <3> QED  BY <3>1, <3>2
  <2>3. ASSUME a = -1 \/ a < r - half, b = last + 1 \/ r + half < b,
               NEW k \in 0..last, Abs(k - r) <= half
        PROVE  k \in M
    BY <1>1, <2>3 DEF Abs
  <2> QED  BY <2>1, <2>2, <2>3
<1>5. Covered(M, last, half, q)
      <=> (\E r \in 0..last : /\ Abs(r - q) <= half
                              /\ a = -1 \/ a < r - half
                              /\ b = last + 1 \/ r + half < b)
  BY <1>4 DEF Covered
<1>6. q \in 0..last
  OBVIOUS
<1>7. Covered(M, last, half, q) <=> IsLine(run, half, last)
  BY <1>3, <1>5, <1>6, KernelFits
<1> QED  BY <1>7 DEF run

(* The two openings, of the rows and of the columns of a mask.              *)
LEMMA OpenedRows ==
    ASSUME NEW mask \in SUBSET Pixels, NEW q \in mask
    PROVE  q \in Opened(mask, HLine) <=> IsLine(RowRun(mask, q), HHalf, Width - 1)
<1> DEFINE M == {k \in Columns : <<k, q[2]>> \in mask}
           last == Width - 1
<1>1. q \in Pixels /\ q = <<q[1], q[2]>> /\ q[1] \in Columns /\ q[2] \in Rows
  BY DEF Pixels
<1>2. last \in Nat /\ Columns = 0..last /\ HHalf \in Nat
  BY SurfaceAssumption DEF Columns
<1>3. M \in SUBSET (0..last) /\ q[1] \in M
  BY <1>1, <1>2
<1>4. RowRun(mask, q) = Run(M, last, q[1])
  BY <1>2 DEF RowRun, Run
<1>5. q \in Opened(mask, HLine) <=> Covered(M, last, HHalf, q[1])
  <2>1. q \in Opened(mask, HLine) <=> \E r \in HLine[q] : r \in Pixels /\ HLine[r] \subseteq mask
    BY <1>1 DEF Opened, Dilated, Eroded
  <2>2. ASSUME NEW n \in Columns
        PROVE  (HLine[<<n, q[2]>>] \subseteq mask)
               <=> (\A k \in Columns : Abs(k - n) <= HHalf => k \in M)
    <3>1. <<n, q[2]>> \in Pixels
      BY <1>1 DEF Pixels
    <3>2. HLine[<<n, q[2]>>] = {t \in Pixels : t[2] = q[2] /\ Abs(t[1] - n) <= HHalf}
      BY <3>1 DEF HLine
    <3>3. ASSUME NEW k \in Columns, Abs(k - n) <= HHalf
          PROVE  <<k, q[2]>> \in HLine[<<n, q[2]>>]
      BY <1>1, <3>2, <3>3 DEF Pixels
    <3>4. ASSUME NEW t \in HLine[<<n, q[2]>>]
          PROVE  t = <<t[1], q[2]>> /\ t[1] \in Columns /\ Abs(t[1] - n) <= HHalf
      BY <3>2 DEF Pixels
    <3> QED  BY <3>3, <3>4
  <2>3. ASSUME NEW n \in Columns
        PROVE  <<n, q[2]>> \in HLine[q] <=> Abs(n - q[1]) <= HHalf
    BY <1>1 DEF HLine, Pixels
  <2>4. ASSUME NEW r \in HLine[q]
        PROVE  r[1] \in Columns /\ r = <<r[1], q[2]>>
    BY <1>1 DEF HLine, Pixels
  <2>5. ASSUME NEW n \in Columns
        PROVE  <<n, q[2]>> \in Pixels
    BY <1>1 DEF Pixels
  <2> HIDE DEF M, last
  <2>6. ASSUME NEW r \in HLine[q], HLine[r] \subseteq mask
        PROVE  \E n \in Columns : /\ Abs(n - q[1]) <= HHalf
                               /\ \A k \in Columns : Abs(k - n) <= HHalf => k \in M
    BY <2>2, <2>3, <2>4, <2>6
  <2>7. ASSUME NEW n \in Columns, Abs(n - q[1]) <= HHalf,
               \A k \in Columns : Abs(k - n) <= HHalf => k \in M
        PROVE  \E r \in HLine[q] : r \in Pixels /\ HLine[r] \subseteq mask
    BY <2>2, <2>3, <2>5, <2>7
  <2> QED  BY <1>2, <2>1, <2>6, <2>7 DEF Covered
<1> HIDE DEF M, last
<1>6. Covered(M, last, HHalf, q[1]) <=> IsLine(Run(M, last, q[1]), HHalf, last)
  BY <1>2, <1>3, RunIsLine
<1>7. q \in Opened(mask, HLine) <=> IsLine(RowRun(mask, q), HHalf, last)
  BY <1>4, <1>5, <1>6
<1> QED  BY <1>7 DEF last

LEMMA OpenedColumns ==
    ASSUME NEW mask \in SUBSET Pixels, NEW q \in mask
    PROVE  q \in Opened(mask, VLine) <=> IsLine(ColumnRun(mask, q), VHalf, Height - 1)
<1> DEFINE M == {k \in Rows : <<q[1], k>> \in mask}
           last == Height - 1
<1>1. q \in Pixels /\ q = <<q[1], q[2]>> /\ q[1] \in Columns /\ q[2] \in Rows
  BY DEF Pixels
<1>2. last \in Nat /\ Rows = 0..last /\ VHalf \in Nat
  BY SurfaceAssumption DEF Rows
<1>3. M \in SUBSET (0..last) /\ q[2] \in M
  BY <1>1, <1>2
<1>4. ColumnRun(mask, q) = Run(M, last, q[2])
  BY <1>2 DEF ColumnRun, Run
<1>5. q \in Opened(mask, VLine) <=> Covered(M, last, VHalf, q[2])
  <2>1. q \in Opened(mask, VLine) <=> \E r \in VLine[q] : r \in Pixels /\ VLine[r] \subseteq mask
    BY <1>1 DEF Opened, Dilated, Eroded
  <2>2. ASSUME NEW n \in Rows
        PROVE  (VLine[<<q[1], n>>] \subseteq mask)
               <=> (\A k \in Rows : Abs(k - n) <= VHalf => k \in M)
    <3>1. <<q[1], n>> \in Pixels
      BY <1>1 DEF Pixels
    <3>2. VLine[<<q[1], n>>] = {t \in Pixels : t[1] = q[1] /\ Abs(t[2] - n) <= VHalf}
      BY <3>1 DEF VLine
    <3>3. ASSUME NEW k \in Rows, Abs(k - n) <= VHalf
          PROVE  <<q[1], k>> \in VLine[<<q[1], n>>]
      BY <1>1, <3>2, <3>3 DEF Pixels
    <3>4. ASSUME NEW t \in VLine[<<q[1], n>>]
          PROVE  t = <<q[1], t[2]>> /\ t[2] \in Rows /\ Abs(t[2] - n) <= VHalf
      BY <3>2 DEF Pixels
    <3> QED  BY <3>3, <3>4
  <2>3. ASSUME NEW n \in Rows
        PROVE  <<q[1], n>> \in VLine[q] <=> Abs(n - q[2]) <= VHalf
    BY <1>1 DEF VLine, Pixels
  <2>4. ASSUME NEW r \in VLine[q]
        PROVE  r[2] \in Rows /\ r = <<q[1], r[2]>>
    BY <1>1 DEF VLine, Pixels
  <2>5. ASSUME NEW n \in Rows
        PROVE  <<q[1], n>> \in Pixels
    BY <1>1 DEF Pixels
  <2> HIDE DEF M, last
  <2>6. ASSUME NEW r \in VLine[q], VLine[r] \subseteq mask
        PROVE  \E n \in Rows : /\ Abs(n - q[2]) <= VHalf
                               /\ \A k \in Rows : Abs(k - n) <= VHalf => k \in M
    BY <2>2, <2>3, <2>4, <2>6
  <2>7. ASSUME NEW n \in Rows, Abs(n - q[2]) <= VHalf,
               \A k \in Rows : Abs(k - n) <= VHalf => k \in M
        PROVE  \E r \in VLine[q] : r \in Pixels /\ VLine[r] \subseteq mask
    BY <2>2, <2>3, <2>5, <2>7
  <2> QED  BY <1>2, <2>1, <2>6, <2>7 DEF Covered
<1> HIDE DEF M, last
<1>6. Covered(M, last, VHalf, q[2]) <=> IsLine(Run(M, last, q[2]), VHalf, last)
  BY <1>2, <1>3, RunIsLine
<1>7. q \in Opened(mask, VLine) <=> IsLine(ColumnRun(mask, q), VHalf, last)
  BY <1>4, <1>5, <1>6
<1> QED  BY <1>7 DEF last

(* What _remove_bus_bars takes away, for every mask and any two kernels:   *)
(* the lines, whole, and nothing else.                                     *)
THEOREM LinesAreRemovedExactly == Spec => []OnlyRunsRemoved
<1>1. ASSUME JudgedInput, judged.of = "mask"
      PROVE  input.it \in SUBSET Pixels /\ judged.result = RemoveBusBars(input.it)
  BY <1>1, AssessAssumption DEF JudgedInput, NotYet
<1>2. ASSUME NEW mask \in SUBSET Pixels
      PROVE  RemoveBusBars(mask) =
                {q \in mask : /\ ~IsLine(RowRun(mask, q), HHalf, Width - 1)
                              /\ ~IsLine(ColumnRun(mask, q), VHalf, Height - 1)}
  BY OpenedRows, OpenedColumns DEF RemoveBusBars
<1>3. JudgedInput => OnlyRunsRemoved
  BY <1>1, <1>2 DEF OnlyRunsRemoved
<1> QED  BY Judging, <1>3, PTL

(* A line does not come into being by taking pixels away.                   *)
LEMMA RunsShrink ==
    ASSUME NEW last \in Nat, NEW half \in Nat,
           NEW long \in SUBSET (0..last), NEW short \in SUBSET long,
           IsLine(short, half, last)
    PROVE  IsLine(long, half, last)
<1>1. IsFiniteSet(0..last)
  BY FS_Interval
<1>2. IsFiniteSet(long) /\ IsFiniteSet(short)
  BY <1>1, FS_Subset
<1>3. /\ Cardinality(short) \in Nat /\ Cardinality(long) \in Nat
      /\ Cardinality(short) <= Cardinality(long)
  BY <1>2, FS_Subset, FS_CardinalityType
<1> QED  BY <1>3 DEF IsLine

(* One call of _remove_bus_bars is enough, for every mask and any kernels:  *)
(* taking the lines of the one opening away leaves no new line to either,   *)
(* so a second call would find nothing to remove.                           *)
THEOREM NoLineIsLeft ==
    ASSUME NEW mask \in SUBSET Pixels
    PROVE  RemoveBusBars(RemoveBusBars(mask)) = RemoveBusBars(mask)
<1> DEFINE left == RemoveBusBars(mask)
<1>1. left \in SUBSET mask /\ left \in SUBSET Pixels
  BY DEF RemoveBusBars
<1>2. ASSUME NEW q \in left
      PROVE  q \notin Opened(left, HLine) /\ q \notin Opened(left, VLine)
  <2>1. q \in mask /\ q \notin Opened(mask, HLine) /\ q \notin Opened(mask, VLine)
    BY DEF RemoveBusBars
  <2>2. Width - 1 \in Nat /\ Height - 1 \in Nat /\ HHalf \in Nat /\ VHalf \in Nat
    BY SurfaceAssumption
  <2> HIDE DEF left
  <2>3. RowRun(left, q) \in SUBSET RowRun(mask, q) /\ RowRun(mask, q) \in SUBSET (0..(Width - 1))
    BY <1>1 DEF RowRun, Columns
  <2>4. ColumnRun(left, q) \in SUBSET ColumnRun(mask, q)
        /\ ColumnRun(mask, q) \in SUBSET (0..(Height - 1))
    BY <1>1 DEF ColumnRun, Rows
  <2>5. ~IsLine(RowRun(mask, q), HHalf, Width - 1) /\ ~IsLine(ColumnRun(mask, q), VHalf, Height - 1)
    BY <2>1, OpenedRows, OpenedColumns
  <2>6. ~IsLine(RowRun(left, q), HHalf, Width - 1)
    BY <2>2, <2>3, <2>5, RunsShrink
  <2>7. ~IsLine(ColumnRun(left, q), VHalf, Height - 1)
    BY <2>2, <2>4, <2>5, RunsShrink
  <2> QED  BY <1>1, <2>6, <2>7, OpenedRows, OpenedColumns
<1>3. RemoveBusBars(left) = left \ (Opened(left, HLine) \cup Opened(left, VLine))
  BY DEF RemoveBusBars
<1> HIDE DEF left
<1>4. RemoveBusBars(left) = left
  BY <1>2, <1>3
<1> QED  BY <1>4 DEF left
===============================================================================
