----------------------------- MODULE DatasetProofs -----------------------------
(* The dataset stays in order for any sessions, any of them "aux", and any  *)
(* number of shots.                                                         *)
EXTENDS DatasetSession, SequenceTheorems, TLAPS

(* The images of all lines, whole or cut.                                   *)
ListedIn(m) == {i \in Images : \E n \in DOMAIN m : m[n].of = i}
Listed == ListedIn(manifest)

(* A process that is in _open_camera or its body is the only one. *)
OneCamera ==
    \A s \in Sessions :
        pc[s] \in {"starting", "ready", "captured", "written", "appending", "closing"} =>
            camera = {s}

(* write_header, decided before the file was opened, still stands. *)
HeadingStands ==
    /\ manifest # <<>> => created
    /\ \A s \in Sessions :
           pc[s] = "appending" => created /\ (heading[s] <=> manifest = <<>>)

(* Only shots taken are on disk, and the one in hand is as far as pc says. *)
TakenOnly ==
    \A i \in images \cup damaged \cup Listed : i[2] <= shots[i[1]]
InHand ==
    \A s \in Sessions :
        /\ pc[s] = "captured" => Shot(s) \notin images \cup damaged
        /\ pc[s] \in {"captured", "written", "appending"} => Shot(s) \notin Listed
        /\ pc[s] \in {"written", "appending"} => Shot(s) \notin damaged
        /\ pc[s] \in {"captured", "written", "appending"} => shots[s] \in 1..MaxShots

ListedAreWhole == Listed \cap damaged = {}

Orphans ==
    \A i \in images \ Rows :
        /\ i = Shot(i[1])
        /\ pc[i[1]] \in {"written", "appending", "closing", "ended"}

SavedHaveRows == saved \subseteq Rows

DInv == /\ TypeOK /\ OneCamera /\ HeadingStands /\ HeaderFirst /\ TakenOnly
        /\ InHand /\ ListedAreWhole /\ Orphans /\ SavedHaveRows

LEMMA Invariant0 == Init => DInv
<1> SUFFICES ASSUME Init PROVE DInv
  OBVIOUS
<1>1. TypeOK
  <2>1. <<>> \in Seq(Lines)
    BY EmptySeq
  <2>2. heading \in [Sessions -> BOOLEAN] /\ created \in BOOLEAN
    BY Zenon DEF Init
  <2>3. shots \in [Sessions -> 0..MaxShots]
    BY DatasetAssumption DEF Init
  <2> QED  BY <2>1, <2>2, <2>3 DEF Init, TypeOK
<1>2. DOMAIN manifest = {} /\ Rows = {} /\ Listed = {}
  BY DEF Init, Rows, Listed, ListedIn
<1> QED
  BY <1>1, <1>2 DEF Init, DInv, OneCamera, HeadingStands, HeaderFirst, TakenOnly, InHand,
     ListedAreWhole, Orphans, SavedHaveRows

-------------------------------------------------------------------------------
(* Lines added to the manifest. *)

Headed(m) == \A n \in DOMAIN m : m[n] = HeaderLine <=> n = 1
RowsIn(m) == {i \in Images : \E n \in DOMAIN m : m[n] = Row(i)}

LEMMA LineTypes ==
    /\ HeaderLine \in Lines
    /\ \A i \in Images : /\ Row(i) \in Lines /\ Row(i) # HeaderLine /\ Row(i).of = i
                         /\ \A j \in Images : Row(i) = Row(j) => i = j
    /\ \A i \in Images, place \in Cuts :
           /\ CutRow(i, place) \in Lines /\ CutRow(i, place) # HeaderLine
           /\ CutRow(i, place).of = i
           /\ \A j \in Images : CutRow(i, place) # Row(j)
    /\ HeaderLine.of \notin Images /\ \A i \in Images : HeaderLine # Row(i)
  BY DatasetAssumption DEF HeaderLine, Lines, Row, CutRow, Cuts

LEMMA AddLine ==
    ASSUME NEW m \in Seq(Lines), NEW x \in Lines
    PROVE  /\ m \o <<x>> \in Seq(Lines) /\ m \o <<x>> # <<>>
           /\ DOMAIN m = 1..Len(m) /\ Len(m) \in Nat
           /\ DOMAIN (m \o <<x>>) = 1..(Len(m) + 1)
           /\ \A n \in 1..Len(m) : (m \o <<x>>)[n] = m[n]
           /\ (m \o <<x>>)[Len(m) + 1] = x
<1>1. <<x>> \in Seq(Lines) /\ Len(<<x>>) = 1 /\ <<x>>[1] = x
  OBVIOUS
<1>2. /\ m \o <<x>> \in Seq(Lines) /\ Len(m \o <<x>>) = Len(m) + 1
      /\ \A n \in 1..(Len(m) + 1) :
             (m \o <<x>>)[n] = IF n <= Len(m) THEN m[n] ELSE <<x>>[n - Len(m)]
  BY <1>1, ConcatProperties
<1>3. Len(m) \in Nat /\ DOMAIN m = 1..Len(m)
  BY LenProperties
<1>4. DOMAIN (m \o <<x>>) = 1..(Len(m) + 1)
  BY <1>2, LenProperties
<1> HIDE DEF Lines
<1>5. (m \o <<x>>)[Len(m) + 1] = x
  BY <1>1, <1>2, <1>3
<1>6. \A n \in 1..Len(m) : (m \o <<x>>)[n] = m[n]
  BY <1>2, <1>3
<1>7. m \o <<x>> # <<>>
  BY <1>2, <1>3, EmptySeq
<1> QED  BY <1>2, <1>3, <1>4, <1>5, <1>6, <1>7

LEMMA AddHeader ==
    ASSUME NEW m \in Seq(Lines), m = <<>>
    PROVE  /\ m \o <<HeaderLine>> \in Seq(Lines) /\ m \o <<HeaderLine>> # <<>>
           /\ Headed(m \o <<HeaderLine>>)
           /\ RowsIn(m \o <<HeaderLine>>) = RowsIn(m)
           /\ ListedIn(m \o <<HeaderLine>>) = ListedIn(m)
<1> DEFINE k == m \o <<HeaderLine>>
<1>1. HeaderLine \in Lines /\ Len(m) = 0 /\ DOMAIN m = {}
  BY EmptySeq, LineTypes
<1>2. k \in Seq(Lines) /\ k # <<>> /\ DOMAIN k = 1..1 /\ k[1] = HeaderLine
  BY <1>1, AddLine
<1> HIDE DEF k
<1>3. Headed(k)
  BY <1>2 DEF Headed
<1>4. RowsIn(k) = {} /\ RowsIn(m) = {} /\ ListedIn(k) = {} /\ ListedIn(m) = {}
  BY <1>1, <1>2, LineTypes DEF RowsIn, ListedIn
<1> QED  BY <1>2, <1>3, <1>4 DEF k

LEMMA AddOther ==
    ASSUME NEW m \in Seq(Lines), NEW x \in Lines, x # HeaderLine, m # <<>>, Headed(m)
    PROVE  /\ m \o <<x>> \in Seq(Lines) /\ m \o <<x>> # <<>>
           /\ Headed(m \o <<x>>)
           /\ RowsIn(m \o <<x>>) = RowsIn(m) \cup {i \in Images : x = Row(i)}
           /\ ListedIn(m \o <<x>>) = ListedIn(m) \cup ({x.of} \cap Images)
<1> DEFINE k == m \o <<x>>
<1>1. /\ k \in Seq(Lines) /\ k # <<>> /\ DOMAIN m = 1..Len(m) /\ Len(m) \in Nat
      /\ DOMAIN k = 1..(Len(m) + 1) /\ \A n \in 1..Len(m) : k[n] = m[n]
      /\ k[Len(m) + 1] = x
  BY AddLine
<1>2. Len(m) # 0
  BY EmptySeq
<1> HIDE DEF k
<1>3. Headed(k)
  BY <1>1, <1>2 DEF Headed
<1>4. /\ RowsIn(k) = RowsIn(m) \cup {i \in Images : x = Row(i)}
      /\ ListedIn(k) = ListedIn(m) \cup ({x.of} \cap Images)
  <2>1. DOMAIN k = DOMAIN m \cup {Len(m) + 1}
    BY <1>1
  <2> QED  BY <1>1, <2>1 DEF RowsIn, ListedIn
<1> QED  BY <1>1, <1>3, <1>4 DEF k

(* The header goes where it has to. *)
LEMMA Topped ==
    ASSUME DInv, NEW s \in Sessions, pc[s] = "appending"
    PROVE  /\ manifest \o Top(s) \in Seq(Lines) /\ manifest \o Top(s) # <<>>
           /\ Headed(manifest \o Top(s)) /\ RowsIn(manifest \o Top(s)) = Rows
           /\ ListedIn(manifest \o Top(s)) = Listed
           /\ manifest \in Seq(Lines) /\ Rows = RowsIn(manifest) /\ Headed(manifest)
           /\ Listed = ListedIn(manifest)
           /\ ~heading[s] => manifest # <<>>
<1>1. /\ manifest \in Seq(Lines) /\ Headed(manifest) /\ Rows = RowsIn(manifest)
      /\ Listed = ListedIn(manifest)
      /\ heading[s] <=> manifest = <<>>
  BY DEF DInv, TypeOK, HeaderFirst, Headed, Rows, RowsIn, Listed, HeadingStands
<1>2. CASE heading[s]
  BY <1>1, <1>2, AddHeader DEF Top
<1>3. CASE ~heading[s]
  <2>1. manifest \o Top(s) = manifest
    BY <1>1, <1>3, ConcatEmptySeq DEF Top
  <2> QED  BY <1>1, <1>3, <2>1
<1> QED  BY <1>2, <1>3

-------------------------------------------------------------------------------
(* What every step of a session keeps. *)

LEMMA CameraStep ==
    ASSUME TypeOK, OneCamera, NEW s \in Sessions, Step(s)
    PROVE  OneCamera'
<1> USE DEF TypeOK, OneCamera, Goes
<1>1. CASE Acquire(s)
  BY <1>1 DEF Acquire
<1>2. CASE Unavailable(s)
  BY <1>2 DEF Unavailable
<1>3. CASE Start(s)
  BY <1>3 DEF Start
<1>4. CASE StartFails(s)
  BY <1>4 DEF StartFails
<1>5. CASE Close(s)
  BY <1>5 DEF Close
<1>6. CASE Capture(s) \/ CaptureFails(s)
  BY <1>6 DEF Capture, CaptureFails
<1>7. CASE WriteImage(s) \/ WriteImageFails(s)
  BY <1>7 DEF WriteImage, WriteImageFails
<1>8. CASE Leave(s)
  BY <1>8 DEF Leave
<1>9. CASE OpenManifest(s) \/ AppendRow(s) \/ AppendFails(s)
  BY <1>9 DEF OpenManifest, AppendRow, AppendFails
<1>10. CASE Crash(s)
  BY <1>10 DEF Crash
<1> QED
  BY <1>1, <1>2, <1>3, <1>4, <1>5, <1>6, <1>7, <1>8, <1>9, <1>10 DEF Step

(* A step that only moves pc, and not to where a shot is in hand. *)
LEMMA Moved ==
    ASSUME DInv, OneCamera', NEW s \in Sessions,
           NEW to \in {"starting", "ready", "closing", "ended"},
           pc' = [pc EXCEPT ![s] = to], camera' \subseteq Sessions,
           pc[s] \in {"written", "appending", "closing", "ended"} => to \in {"closing", "ended"},
           shots' = shots, images' \subseteq images, saved' = saved, damaged' = damaged,
           created' = created, manifest' = manifest, heading' = heading
    PROVE  DInv'
<1>1. TypeOK'
  BY DEF DInv, TypeOK
<1>2. Rows' = Rows /\ Listed' = Listed
  BY DEF Rows, Listed, ListedIn
<1>3. HeadingStands' /\ HeaderFirst'
  BY DEF DInv, TypeOK, HeadingStands, HeaderFirst
<1>4. TakenOnly' /\ ListedAreWhole' /\ SavedHaveRows'
  BY <1>2 DEF DInv, TakenOnly, ListedAreWhole, SavedHaveRows
<1>5. InHand'
  BY <1>2 DEF DInv, TypeOK, InHand, Shot
<1>6. Orphans'
  BY <1>2 DEF DInv, TypeOK, Orphans, Shot, Images
<1> QED  BY <1>1, <1>3, <1>4, <1>5, <1>6 DEF DInv

LEMMA DiscardKeeps ==
    ASSUME DInv, NEW i \in Images, Discard(i)
    PROVE  DInv'
<1> USE DEF Discard, table
<1>1. TypeOK'
  BY DEF DInv, TypeOK
<1>2. Rows' = Rows /\ Listed' = Listed
  BY DEF Rows, Listed, ListedIn
<1>3. OneCamera' /\ HeadingStands' /\ HeaderFirst'
  BY DEF DInv, OneCamera, HeadingStands, HeaderFirst
<1>4. TakenOnly' /\ ListedAreWhole' /\ SavedHaveRows'
  BY <1>2 DEF DInv, TakenOnly, ListedAreWhole, SavedHaveRows
<1>5. InHand'
  BY <1>2 DEF DInv, InHand, Shot
<1>6. Orphans'
  BY <1>2 DEF DInv, Orphans, Shot
<1> QED  BY <1>1, <1>3, <1>4, <1>5, <1>6 DEF DInv

LEMMA CaptureKeeps ==
    ASSUME DInv, OneCamera', NEW s \in Sessions, Capture(s) \/ CaptureFails(s)
    PROVE  DInv'
<1> USE DEF Capture, CaptureFails, Goes, files, table
<1>1. TypeOK'
  <2>1. shots' \in [Sessions -> 0..MaxShots]
    <3>1. shots \in [Sessions -> 0..MaxShots] /\ MaxShots \in Nat /\ shots[s] < MaxShots
      BY DatasetAssumption DEF DInv, TypeOK
    <3>2. shots' = [shots EXCEPT ![s] = shots[s] + 1]
      OBVIOUS
    <3>3. shots[s] + 1 \in 0..MaxShots
      BY <3>1
    <3> QED  BY <3>1, <3>2, <3>3
  <2> QED  BY <2>1 DEF DInv, TypeOK
<1>2. Rows' = Rows /\ Listed' = Listed
  BY DEF Rows, Listed, ListedIn
<1>3. HeadingStands' /\ HeaderFirst'
  BY DEF DInv, TypeOK, HeadingStands, HeaderFirst
<1>4. ListedAreWhole' /\ SavedHaveRows'
  BY <1>2 DEF DInv, ListedAreWhole, SavedHaveRows
<1>5. /\ \A t \in Sessions : shots[t] \in Nat /\ shots'[t] \in Nat /\ shots[t] <= shots'[t]
      /\ shots'[s] = shots[s] + 1 /\ shots'[s] \in 1..MaxShots
      /\ \A i \in Images : i[1] \in Sessions /\ i[2] \in Nat
  BY DatasetAssumption DEF DInv, TypeOK, Images
<1>6. images \cup damaged \cup Listed \subseteq Images
  BY DEF DInv, TypeOK, Listed, ListedIn
<1>7. TakenOnly'
  BY <1>2, <1>5, <1>6 DEF DInv, TakenOnly
<1>8. <<s, shots'[s]>> \notin images \cup damaged \cup Listed
  BY <1>5, <1>6 DEF DInv, TakenOnly
<1>9. \A t \in Sessions : t # s => /\ pc'[t] = pc[t] /\ shots'[t] = shots[t]
  BY DEF DInv, TypeOK
<1>10. InHand'
  <2>1. ASSUME NEW t \in Sessions
        PROVE  /\ pc'[t] = "captured" => Shot(t)' \notin images' \cup damaged'
               /\ pc'[t] \in {"captured", "written", "appending"} => Shot(t)' \notin Listed'
               /\ pc'[t] \in {"written", "appending"} => Shot(t)' \notin damaged'
               /\ pc'[t] \in {"captured", "written", "appending"} => shots'[t] \in 1..MaxShots
    <3>1. CASE t = s
      BY <1>2, <1>5, <1>8, <3>1 DEF Shot
    <3>2. CASE t # s
      BY <1>2, <1>9, <3>2 DEF DInv, InHand, Shot
    <3> QED  BY <3>1, <3>2
  <2> QED  BY <2>1 DEF InHand
<1>11. Orphans'
  <2>1. ASSUME NEW i \in images \ Rows
        PROVE  i[1] # s /\ i[1] \in Sessions
    BY <1>5, <1>6 DEF DInv, Orphans
  <2> QED  BY <1>2, <1>9, <2>1 DEF DInv, Orphans, Shot
<1> QED  BY <1>1, <1>3, <1>4, <1>7, <1>10, <1>11 DEF DInv

(* Facts of the session that has a shot in hand. *)
LEMMA ShotInHand ==
    ASSUME DInv, NEW s \in Sessions, pc[s] \in {"captured", "written", "appending"}
    PROVE  /\ Shot(s) \in Images /\ Shot(s)[1] = s /\ Shot(s)[2] <= shots[s]
           /\ \A t \in Sessions : t # s => Shot(t) # Shot(s)
           /\ \A t \in Sessions : t # s =>
                  pc[t] \notin {"starting", "ready", "captured", "written", "appending", "closing"}
<1>1. shots[s] \in 1..MaxShots /\ MaxShots \in Nat
  BY DatasetAssumption DEF DInv, InHand
<1>2. Shot(s) \in Images /\ Shot(s)[1] = s /\ Shot(s)[2] <= shots[s]
  BY <1>1 DEF Shot, Images
<1>3. \A t \in Sessions : t # s => Shot(t) # Shot(s)
  BY DEF Shot
<1>4. ASSUME NEW t \in Sessions, t # s,
             pc[t] \in {"starting", "ready", "captured", "written", "appending", "closing"}
      PROVE  FALSE
  BY <1>4 DEF DInv, OneCamera
<1> QED  BY <1>2, <1>3, <1>4

LEMMA WriteKeeps ==
    ASSUME DInv, OneCamera', NEW s \in Sessions, WriteImage(s)
    PROVE  DInv'
<1> USE DEF WriteImage, Goes, table
<1>0. pc[s] = "captured"
  OBVIOUS
<1>1. TypeOK'
  BY <1>0, ShotInHand DEF DInv, TypeOK
<1>2. Rows' = Rows /\ Listed' = Listed /\ \A t \in Sessions : Shot(t)' = Shot(t)
  BY DEF Rows, Listed, ListedIn, Shot
<1>3. HeadingStands' /\ HeaderFirst'
  BY DEF DInv, TypeOK, HeadingStands, HeaderFirst
<1>4. ListedAreWhole' /\ SavedHaveRows'
  BY <1>2 DEF DInv, ListedAreWhole, SavedHaveRows
<1>5. TakenOnly'
  BY <1>0, <1>2, ShotInHand DEF DInv, TakenOnly
<1>6. \A t \in Sessions : pc'[t] = IF t = s THEN "written" ELSE pc[t]
  BY DEF DInv, TypeOK
<1>7. InHand'
  BY <1>0, <1>2, <1>6, ShotInHand DEF DInv, InHand
<1>8. Orphans'
  <2>1. ASSUME NEW i \in images \ Rows
        PROVE  i[1] # s /\ i[1] \in Sessions
    BY <1>0 DEF DInv, Orphans, TypeOK, Images
  <2> QED  BY <1>0, <1>2, <1>6, <2>1, ShotInHand DEF DInv, Orphans
<1> QED  BY <1>1, <1>3, <1>4, <1>5, <1>7, <1>8 DEF DInv

LEMMA DamageKeeps ==
    ASSUME DInv, OneCamera', NEW s \in Sessions, pc[s] = "captured",
           NEW to \in {"ready", "ended"}, pc' = [pc EXCEPT ![s] = to], camera' \subseteq Sessions,
           damaged' = damaged \cup {Shot(s)}, images' = images, shots' = shots, saved' = saved,
           created' = created, manifest' = manifest, heading' = heading
    PROVE  DInv'
<1>1. TypeOK'
  BY ShotInHand DEF DInv, TypeOK
<1>2. Rows' = Rows /\ Listed' = Listed /\ \A t \in Sessions : Shot(t)' = Shot(t)
  BY DEF Rows, Listed, ListedIn, Shot
<1>3. HeadingStands' /\ HeaderFirst'
  BY DEF DInv, TypeOK, HeadingStands, HeaderFirst
<1>4. ListedAreWhole' /\ SavedHaveRows'
  BY <1>2 DEF DInv, ListedAreWhole, SavedHaveRows, InHand
<1>5. TakenOnly'
  BY <1>2, ShotInHand DEF DInv, TakenOnly
<1>6. \A t \in Sessions : pc'[t] = IF t = s THEN to ELSE pc[t]
  BY DEF DInv, TypeOK
<1>7. InHand'
  BY <1>2, <1>6, ShotInHand DEF DInv, InHand
<1>8. Orphans'
  <2>1. ASSUME NEW i \in images \ Rows
        PROVE  i[1] # s /\ i[1] \in Sessions
    BY DEF DInv, Orphans, TypeOK, Images
  <2> QED  BY <1>2, <1>6, <2>1 DEF DInv, Orphans
<1> QED  BY <1>1, <1>3, <1>4, <1>5, <1>7, <1>8 DEF DInv

LEMMA OpenKeeps ==
    ASSUME DInv, OneCamera', NEW s \in Sessions, OpenManifest(s)
    PROVE  DInv'
<1> USE DEF OpenManifest, Goes, files
<1>1. TypeOK'
  BY DEF DInv, TypeOK
<1>2. Rows' = Rows /\ Listed' = Listed /\ \A t \in Sessions : Shot(t)' = Shot(t)
  BY DEF Rows, Listed, ListedIn, Shot
<1>6. \A t \in Sessions : pc'[t] = IF t = s THEN "appending" ELSE pc[t]
  BY DEF DInv, TypeOK
<1>3. HeadingStands' /\ HeaderFirst'
  BY <1>6 DEF DInv, TypeOK, HeadingStands, HeaderFirst
<1>4. ListedAreWhole' /\ SavedHaveRows' /\ TakenOnly'
  BY <1>2 DEF DInv, ListedAreWhole, SavedHaveRows, TakenOnly
<1>7. InHand'
  BY <1>2, <1>6 DEF DInv, InHand
<1>8. Orphans'
  BY <1>2, <1>6 DEF DInv, Orphans, TypeOK, Images
<1> QED  BY <1>1, <1>3, <1>4, <1>7, <1>8 DEF DInv

(* The manifest grows by the row in hand, or by something that is no row. *)
LEMMA AppendKeeps ==
    ASSUME DInv, OneCamera', NEW s \in Sessions, pc[s] = "appending",
           NEW to \in {"ready", "closing"}, pc' = [pc EXCEPT ![s] = to],
           camera' = camera, shots' = shots, images' = images, damaged' = damaged,
           created' = created, heading' = heading,
           manifest' \in Seq(Lines), Headed(manifest'), manifest' # <<>>,
           ListedIn(manifest') \subseteq Listed \cup {Shot(s)},
           \/ to = "closing" /\ saved' = saved /\ RowsIn(manifest') = Rows
           \/ saved' \subseteq saved \cup {Shot(s)} /\ RowsIn(manifest') = Rows \cup {Shot(s)}
    PROVE  DInv'
<1>1. TypeOK'
  BY ShotInHand DEF DInv, TypeOK
<1>2. /\ Rows' = Rows \/ Rows' = Rows \cup {Shot(s)}
      /\ Listed' \subseteq Listed \cup {Shot(s)}
      /\ \A t \in Sessions : Shot(t)' = Shot(t)
  BY DEF Rows, RowsIn, Listed, ListedIn, Shot
<1>3. \A t \in Sessions : pc'[t] = IF t = s THEN to ELSE pc[t]
  BY DEF DInv, TypeOK
<1>4. HeadingStands' /\ HeaderFirst'
  BY <1>3, ShotInHand DEF DInv, HeadingStands, HeaderFirst, Headed
<1>5. SavedHaveRows'
  BY DEF DInv, SavedHaveRows, Rows, RowsIn
<1>6. ListedAreWhole' /\ TakenOnly'
  BY <1>2, ShotInHand DEF DInv, ListedAreWhole, TakenOnly, InHand
<1>7. InHand'
  BY <1>2, <1>3, ShotInHand DEF DInv, InHand
<1>8. Orphans'
  <2>1. ASSUME NEW i \in images \ Rows, i[1] = s
        PROVE  i = Shot(s)
    BY <2>1 DEF DInv, Orphans
  <2>2. \A i \in images : i[1] \in Sessions
    BY DEF DInv, TypeOK, Images
  <2>3. to = "closing" \/ Rows' = Rows \cup {Shot(s)}
    BY DEF Rows, RowsIn
  <2> QED  BY <1>2, <1>3, <2>1, <2>2, <2>3 DEF DInv, Orphans
<1> QED  BY <1>1, <1>4, <1>5, <1>6, <1>7, <1>8 DEF DInv

LEMMA AppendRowKeeps ==
    ASSUME DInv, OneCamera', NEW s \in Sessions, AppendRow(s)
    PROVE  DInv'
<1>1. pc[s] = "appending" /\ pc' = [pc EXCEPT ![s] = "ready"]
  BY DEF AppendRow, Goes
<1>2. /\ Row(Shot(s)) \in Lines /\ Row(Shot(s)) # HeaderLine /\ Row(Shot(s)).of = Shot(s)
      /\ {i \in Images : Row(Shot(s)) = Row(i)} = {Shot(s)} /\ Shot(s) \in Images
  BY <1>1, ShotInHand, LineTypes
<1>3. /\ manifest' \in Seq(Lines) /\ manifest' # <<>> /\ Headed(manifest')
      /\ RowsIn(manifest') = Rows \cup {Shot(s)}
      /\ ListedIn(manifest') = Listed \cup {Shot(s)}
  <2> DEFINE m == manifest \o Top(s)
             row == Row(Shot(s))
  <2>1. m \in Seq(Lines) /\ m # <<>> /\ Headed(m) /\ RowsIn(m) = Rows /\ ListedIn(m) = Listed
    BY <1>1, Topped
  <2>2. manifest' = m \o <<row>>
    BY DEF AppendRow
  <2>3. /\ row \in Lines /\ row # HeaderLine /\ {row.of} \cap Images = {Shot(s)}
        /\ {i \in Images : row = Row(i)} = {Shot(s)}
    BY <1>2
  <2> HIDE DEF m, row
  <2>4. /\ m \o <<row>> \in Seq(Lines) /\ m \o <<row>> # <<>> /\ Headed(m \o <<row>>)
        /\ RowsIn(m \o <<row>>) = RowsIn(m) \cup {i \in Images : row = Row(i)}
        /\ ListedIn(m \o <<row>>) = ListedIn(m) \cup ({row.of} \cap Images)
    BY <2>1, <2>3, AddOther
  <2> QED  BY <2>1, <2>2, <2>3, <2>4
<1> QED  BY <1>1, <1>3, AppendKeeps DEF AppendRow, files

LEMMA AppendFailsKeeps ==
    ASSUME DInv, OneCamera', NEW s \in Sessions, AppendFails(s)
    PROVE  DInv'
<1> DEFINE m == manifest \o Top(s)
           row == Row(Shot(s))
           cut(place) == CutRow(Shot(s), place)
<1>1. pc[s] = "appending" /\ pc' = [pc EXCEPT ![s] = "closing"]
  BY DEF AppendFails, Goes
<1>2. /\ camera' = camera /\ shots' = shots /\ images' = images /\ damaged' = damaged
      /\ created' = created /\ heading' = heading /\ saved' = saved
  BY DEF AppendFails, files
<1>3. /\ row \in Lines /\ row # HeaderLine /\ {row.of} \cap Images = {Shot(s)}
      /\ {i \in Images : row = Row(i)} = {Shot(s)}
  BY <1>1, ShotInHand, LineTypes
<1>9. ASSUME NEW place \in Cuts
      PROVE  /\ cut(place) \in Lines /\ cut(place) # HeaderLine
             /\ {cut(place).of} \cap Images = {Shot(s)}
             /\ {i \in Images : cut(place) = Row(i)} = {}
  BY <1>1, ShotInHand, LineTypes
<1>4. /\ m \in Seq(Lines) /\ m # <<>> /\ Headed(m) /\ RowsIn(m) = Rows /\ ListedIn(m) = Listed
      /\ manifest \in Seq(Lines) /\ Rows = RowsIn(manifest) /\ Headed(manifest)
      /\ Listed = ListedIn(manifest)
      /\ ~heading[s] => manifest # <<>>
  BY <1>1, Topped
<1>5. CASE manifest' = manifest
  BY <1>1, <1>2, <1>5, Moved DEF DInv, TypeOK
<1>6. CASE manifest' = m
  BY <1>1, <1>2, <1>4, <1>6, AppendKeeps
<1>7. CASE manifest' = m \o <<row>>
  <2> HIDE DEF m, row
  <2>1. /\ manifest' \in Seq(Lines) /\ manifest' # <<>> /\ Headed(manifest')
        /\ RowsIn(manifest') = Rows \cup {Shot(s)}
        /\ ListedIn(manifest') = Listed \cup {Shot(s)}
    <3>1. /\ m \o <<row>> \in Seq(Lines) /\ m \o <<row>> # <<>> /\ Headed(m \o <<row>>)
          /\ RowsIn(m \o <<row>>) = RowsIn(m) \cup {i \in Images : row = Row(i)}
          /\ ListedIn(m \o <<row>>) = ListedIn(m) \cup ({row.of} \cap Images)
      BY <1>3, <1>4, AddOther
    <3> QED  BY <1>3, <1>4, <1>7, <3>1
  <2> QED  BY <1>1, <1>2, <2>1, AppendKeeps
<1>8. ASSUME ~heading[s], NEW place \in Cuts, manifest' = manifest \o <<cut(place)>>
      PROVE  DInv'
  <2> DEFINE x == cut(place)
  <2>1. /\ x \in Lines /\ x # HeaderLine /\ {x.of} \cap Images = {Shot(s)}
        /\ {i \in Images : x = Row(i)} = {}
    BY <1>9
  <2>2. manifest' = manifest \o <<x>>
    BY <1>8
  <2> HIDE DEF m, x
  <2>3. /\ manifest \o <<x>> \in Seq(Lines) /\ manifest \o <<x>> # <<>>
        /\ Headed(manifest \o <<x>>)
        /\ RowsIn(manifest \o <<x>>) = RowsIn(manifest) \cup {i \in Images : x = Row(i)}
        /\ ListedIn(manifest \o <<x>>) = ListedIn(manifest) \cup ({x.of} \cap Images)
    BY <1>4, <1>8, <2>1, AddOther
  <2>4. /\ manifest' \in Seq(Lines) /\ Headed(manifest') /\ manifest' # <<>>
        /\ RowsIn(manifest') = Rows /\ ListedIn(manifest') = Listed \cup {Shot(s)}
    BY <1>4, <2>1, <2>2, <2>3
  <2> QED  BY <1>1, <1>2, <2>4, AppendKeeps
<1> QED  BY <1>5, <1>6, <1>7, <1>8 DEF AppendFails

-------------------------------------------------------------------------------
LEMMA StepKeeps ==
    ASSUME DInv, NEW s \in Sessions, Step(s)
    PROVE  DInv'
<1>0. OneCamera' /\ camera \subseteq Sessions
  BY CameraStep DEF DInv, TypeOK
<1>1. CASE Acquire(s)
  BY <1>0, <1>1, Moved DEF Acquire, Goes, files, table
<1>2. CASE Unavailable(s)
  BY <1>0, <1>2, Moved DEF Unavailable, Goes, files, table
<1>3. CASE Start(s)
  BY <1>0, <1>3, Moved DEF Start, Goes, files, table
<1>4. CASE StartFails(s)
  BY <1>0, <1>4, Moved DEF StartFails, Goes, files, table
<1>5. CASE Close(s)
  BY <1>0, <1>5, Moved DEF Close, Goes, files, table
<1>6. CASE Capture(s) \/ CaptureFails(s)
  BY <1>0, <1>6, CaptureKeeps
<1>7. CASE WriteImage(s)
  BY <1>0, <1>7, WriteKeeps
<1>8. CASE WriteImageFails(s)
  <2>1. CASE damaged' = damaged
    BY <1>0, <1>8, <2>1, Moved DEF WriteImageFails, LeavesPart, Goes, table
  <2>2. CASE damaged' = damaged \cup {Shot(s)}
    BY <1>0, <1>8, <2>2, DamageKeeps DEF WriteImageFails, LeavesPart, Goes, table
  <2> QED  BY <1>8, <2>1, <2>2 DEF WriteImageFails, LeavesPart
<1>9. CASE Leave(s)
  BY <1>0, <1>9, Moved DEF Leave, Goes, files, table
<1>10. CASE OpenManifest(s)
  BY <1>0, <1>10, OpenKeeps
<1>11. CASE AppendRow(s)
  BY <1>0, <1>11, AppendRowKeeps
<1>12. CASE AppendFails(s)
  BY <1>0, <1>12, AppendFailsKeeps
<1>13. CASE Crash(s)
  <2>1. CASE damaged' = damaged
    BY <1>0, <1>13, <2>1, Moved DEF Crash, LeavesPart, Goes, table
  <2>2. CASE damaged' = damaged \cup {Shot(s)} /\ damaged' # damaged
    BY <1>0, <1>13, <2>2, DamageKeeps DEF Crash, LeavesPart, Goes, table
  <2> QED  BY <1>13, <2>1, <2>2 DEF Crash, LeavesPart
<1> QED
  BY <1>1, <1>2, <1>3, <1>4, <1>5, <1>6, <1>7, <1>8, <1>9, <1>10, <1>11, <1>12, <1>13
  DEF Step

THEOREM DatasetInvariance == Spec => []DInv
<1>1. DInv /\ UNCHANGED vars => DInv'
  BY DEF vars, files, table, DInv, TypeOK, OneCamera, HeadingStands, HeaderFirst, TakenOnly,
     InHand, ListedAreWhole, Orphans, SavedHaveRows, Rows, Listed, ListedIn, Shot
<1>2. DInv /\ [Next]_vars => DInv'
  BY <1>1, StepKeeps, DiscardKeeps DEF Next
<1> QED  BY Invariant0, <1>2, PTL DEF Spec

(* No step leaves the types. *)
THEOREM DatasetTypeCorrect == Spec => []TypeOK
<1>1. DInv => TypeOK
  BY DEF DInv
<1> QED  BY DatasetInvariance, <1>1, PTL

(* Processes killed between creating and writing the table, and sessions   *)
(* that overlap, leave it one header, at the top.                          *)
THEOREM OneHeaderOnTop == Spec => []HeaderFirst
<1>1. DInv => HeaderFirst
  BY DEF DInv
<1> QED  BY DatasetInvariance, <1>1, PTL

(* The training opens no file that imwrite did not finish.                 *)
THEOREM NoDamagedFileInTraining == Spec => []TrainingCanRead
<1>1. DInv => TrainingCanRead
  <2>1. TrainingSet \subseteq Listed
    BY DEF TrainingSet, Named, Listed, ListedIn
  <2> QED  BY <2>1 DEF DInv, ListedAreWhole, TrainingCanRead
<1> QED  BY DatasetInvariance, <1>1, PTL

(* A session leaves at most the image it was about to list.                *)
THEOREM OrphanAtMostOne == Spec => []OneOrphanEach
<1>1. DInv => OneOrphanEach
  BY DEF DInv, Orphans, OneOrphanEach
<1> QED  BY DatasetInvariance, <1>1, PTL

-------------------------------------------------------------------------------
(* Only for a cut row does the training script refuse a table that has     *)
(* anything in it.                                                         *)
LEMMA OnlyCutsRefused ==
    ASSUME DInv, NEW n \in DOMAIN manifest, Refused
    PROVE  Torn
<1>1. manifest # <<>> /\ manifest[1] = HeaderLine
  <2>1. manifest \in Seq(Lines) /\ DOMAIN manifest = 1..Len(manifest) /\ Len(manifest) \in Nat
    BY LenProperties DEF DInv, TypeOK
  <2> QED  BY <2>1 DEF DInv, HeaderFirst
<1> QED  BY <1>1 DEF Torn, Refused

(* "saved" means what it says, after any failures, interrupts and kills,   *)
(* but for a cut row that stops the training or precedes the image's own.  *)
THEOREM SavedIsKept == Spec => []SavedIsTrainable
<1>1. ASSUME DInv, NEW i \in saved \cap images, i[1] \notin Aux, ~(Torn /\ Refused),
             \A n \in DOMAIN manifest : manifest[n] = Row(i) => ~Glued(n)
      PROVE  i \in TrainingSet
  <2>1. i \in Rows
    BY <1>1 DEF DInv, SavedHaveRows
  <2>2. PICK n \in DOMAIN manifest : manifest[n] = Row(i)
    BY <2>1 DEF Rows
  <2>3. ~Refused /\ ~Glued(n)
    BY <1>1, <2>2, OnlyCutsRefused
  <2>4. i \in Named
    BY <2>1, <2>2, <2>3 DEF Named, Rows, Row
  <2> QED  BY <1>1, <2>3, <2>4 DEF TrainingSet
<1>2. DInv => SavedIsTrainable
  BY <1>1 DEF SavedIsTrainable
<1> QED  BY DatasetInvariance, <1>2, PTL

-------------------------------------------------------------------------------
(* A table that has only been added to. *)
Extends(k, m) == DOMAIN m \subseteq DOMAIN k /\ \A n \in DOMAIN m : k[n] = m[n]

LEMMA ExtendsByOne ==
    ASSUME NEW m \in Seq(Lines), NEW x \in Lines
    PROVE  Extends(m \o <<x>>, m)
<1> DEFINE k == m \o <<x>>
<1>1. /\ DOMAIN m = 1..Len(m) /\ Len(m) \in Nat /\ DOMAIN k = 1..(Len(m) + 1)
      /\ \A n \in 1..Len(m) : k[n] = m[n]
  BY AddLine
<1> HIDE DEF k
<1>2. DOMAIN m \subseteq DOMAIN k
  BY <1>1
<1> QED  BY <1>1, <1>2 DEF Extends, k

LEMMA Appended ==
    ASSUME DInv, NEW s \in Sessions, AppendRow(s) \/ AppendFails(s)
    PROVE  Extends(manifest', manifest)
<1> DEFINE m == manifest \o Top(s)
           row == Row(Shot(s))
<1>1. pc[s] = "appending"
  BY DEF AppendRow, AppendFails, Goes
<1>2. /\ row \in Lines /\ HeaderLine \in Lines
      /\ \A place \in Cuts : CutRow(Shot(s), place) \in Lines
  BY <1>1, ShotInHand, LineTypes
<1>3. m \in Seq(Lines) /\ manifest \in Seq(Lines)
  BY <1>1, Topped
<1>4. Extends(manifest, manifest)
  BY DEF Extends
<1>5. Extends(m, manifest)
  <2>1. CASE heading[s]
    BY <1>2, <1>3, <2>1, ExtendsByOne DEF Top
  <2>2. CASE ~heading[s]
    BY <1>3, <1>4, <2>2, ConcatEmptySeq DEF Top
  <2> QED  BY <2>1, <2>2
<1>6. Extends(m \o <<row>>, manifest)
  <2> HIDE DEF m, row
  <2>1. Extends(m \o <<row>>, m)
    BY <1>2, <1>3, ExtendsByOne
  <2> QED  BY <1>5, <2>1 DEF Extends
<1>7. \A place \in Cuts : Extends(manifest \o <<CutRow(Shot(s), place)>>, manifest)
  BY <1>2, <1>3, ExtendsByOne
<1> QED  BY <1>4, <1>5, <1>6, <1>7 DEF AppendRow, AppendFails

(* Whatever a step of a session does, what the training would use before   *)
(* it would use after it, unless a cut row stops the training.             *)
THEOREM TrainingOnlyLosesDiscarded == Spec => TrainingKept
<1>1. ASSUME DInv, DInv', NEW s \in Sessions, Step(s), ~(Torn /\ Refused)'
      PROVE  TrainingSet \subseteq TrainingSet'
  <2>1. images \subseteq images' /\ damaged \subseteq damaged'
    BY <1>1 DEF Step, Acquire, Unavailable, Start, StartFails, Close, Capture, CaptureFails,
                WriteImage, WriteImageFails, LeavesPart, Leave, OpenManifest, AppendRow,
                AppendFails, Crash, files
  <2>2. manifest' = manifest \/ AppendRow(s) \/ AppendFails(s)
    BY <1>1 DEF Step, Acquire, Unavailable, Start, StartFails, Close, Capture, CaptureFails,
                WriteImage, WriteImageFails, Leave, OpenManifest, Crash, table
  <2>3. Extends(manifest', manifest)
    <3>1. CASE manifest' = manifest
      BY <3>1 DEF Extends
    <3> QED  BY <1>1, <2>2, <3>1, Appended
  <2>4. ASSUME NEW i \in TrainingSet
        PROVE  i \in TrainingSet'
    <3>1. i \in Images /\ i \in images \cup damaged /\ i[1] \notin Aux /\ i \in Named
      BY DEF TrainingSet, Named
    <3>2. PICK n \in DOMAIN manifest :
              manifest[n].of = i /\ manifest[n].upto \in {"rest", "end"} /\ ~Glued(n)
      BY <3>1 DEF Named
    <3>3. n \in DOMAIN manifest' /\ manifest'[n] = manifest[n]
      BY <2>3, <3>2 DEF Extends
    <3>4. ~Glued(n)'
      <4>1. n \in Nat /\ (n > 1 => n - 1 \in DOMAIN manifest)
        BY <1>1, <3>2, LenProperties DEF DInv, TypeOK
      <4>2. n > 1 => manifest'[n - 1] = manifest[n - 1]
        BY <2>3, <4>1 DEF Extends
      <4> QED  BY <3>2, <4>2 DEF Glued, Cut
    <3>5. ~Refused'
      <4>1. /\ manifest' \in Seq(Lines) /\ DOMAIN manifest' = 1..Len(manifest')
            /\ Len(manifest') \in Nat
        BY <1>1, LenProperties DEF DInv, TypeOK
      <4>2. manifest' # <<>> /\ manifest'[1] = HeaderLine
        BY <1>1, <3>3, <4>1 DEF DInv, HeaderFirst
      <4> QED  BY <1>1, <4>2 DEF Torn, Refused
    <3>6. i \in Named'
      BY <3>1, <3>2, <3>3, <3>4 DEF Named
    <3> QED  BY <2>1, <3>1, <3>5, <3>6 DEF TrainingSet
  <2> QED  BY <2>4
<1>2. ASSUME NEW i \in Images, Discard(i)
      PROVE  TrainingSet \ TrainingSet' \subseteq images \ images'
  <2>1. manifest' = manifest /\ damaged' = damaged
    BY <1>2 DEF Discard, table
  <2>2. Named' = Named /\ Refused' = Refused
    BY <2>1 DEF Named, Refused, Glued, Cut
  <2> QED  BY <2>1, <2>2 DEF TrainingSet
<1>3. UNCHANGED vars => TrainingSet' = TrainingSet
  BY DEF vars, files, table, TrainingSet, Named, Refused, Glued, Cut
<1>4. DInv /\ DInv' /\ [Next]_vars
      => [TrainingSet \ TrainingSet' \subseteq images \ images' \/ (Torn /\ Refused)']_vars
  <2> SUFFICES ASSUME DInv, DInv', [Next]_vars, ~(Torn /\ Refused)'
               PROVE  TrainingSet \ TrainingSet' \subseteq images \ images'
    BY Zenon
  <2>1. CASE \E s \in Sessions : Step(s)
    <3>1. TrainingSet \subseteq TrainingSet'
      BY <1>1, <2>1
    <3> QED  BY <3>1
  <2>2. CASE \E i \in Images : Discard(i)
    BY <1>2, <2>2
  <2>3. CASE UNCHANGED vars
    BY <1>3, <2>3
  <2> QED  BY <2>1, <2>2, <2>3 DEF Next
<1> QED  BY DatasetInvariance, <1>4, PTL DEF Spec, TrainingKept
===============================================================================
