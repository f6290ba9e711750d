---------------------------- MODULE DatasetSession ----------------------------
(***************************************************************************)
(* dataset/capture_dataset.py: sessions that fill the dataset, one process *)
(* each, and the rows that training/train_dirt_detection.py makes of it.   *)
(*                                                                         *)
(* An image is a session and the number of its shot: the name has the time *)
(* to the microsecond, and one process at a time has the camera.  A write  *)
(* that runs out of disk has filled a block first: it may cut a row        *)
(* anywhere, but not the header, which is in the first block.  A session   *)
(* has an id that pandas reads back as the text it is.                     *)
(***************************************************************************)
EXTENDS Integers, Sequences

CONSTANTS Sessions,
          Aux,        \* those whose session_id has "aux" in it
          MaxShots,   \* bound: shots of a session
          Header      \* the column names

Images == Sessions \X (1..MaxShots)

(* What was written of a line of manifest.csv: all of it, with its end, or *)
(* up to a place before the first comma, before the filename, within the   *)
(* filename, or behind it.                                                 *)
Cuts       == {"session_id", "class", "filename", "rest"}
Lines      == [of : Images \cup {Header}, upto : Cuts \cup {"end"}]
HeaderLine == [of |-> Header, upto |-> "end"]
Row(i)     == [of |-> i, upto |-> "end"]
CutRow(i, place) == [of |-> i, upto |-> place]

ASSUME DatasetAssumption ==
    /\ Aux \subseteq Sessions /\ MaxShots \in Nat
    /\ Header \notin Images

VARIABLES
    pc,         \* [Sessions -> where main is]
    camera,     \* the processes that have it
    shots,      \* [Sessions -> shots taken]
    images,     \* files under raw/ that can be read
    damaged,    \* and those that cannot
    created,    \* manifest.csv exists
    manifest,   \* what is in it
    heading,    \* [Sessions -> write_header, once decided]
    saved       \* images reported as saved
files == <<images, damaged>>
table == <<created, manifest, heading, saved>>
vars  == <<pc, camera, shots, files, table>>

Init ==
    /\ pc = [s \in Sessions |-> "prompt"] /\ camera = {}
    /\ shots = [s \in Sessions |-> 0]
    /\ images = {} /\ damaged = {}
    /\ created = FALSE /\ manifest = <<>> /\ saved = {}
    /\ heading = [s \in Sessions |-> FALSE]

Goes(s, from, to) == pc[s] \in from /\ pc' = [pc EXCEPT ![s] = to]
Shot_Before(s) == <<s, shots[s] - 1>>
Shot(s) == <<s, shots[s]>>

-------------------------------------------------------------------------------
(* _open_camera.  libcamera gives the camera to one process. *)

Acquire(s) ==
    /\ Goes(s, {"prompt"}, "starting")
    /\ camera = {} /\ camera' = {s}
    /\ UNCHANGED <<shots, files, table>>

Unavailable(s) ==
    /\ Goes(s, {"prompt"}, "ended")
    /\ UNCHANGED <<camera, shots, files, table>>

(* The output directory is ensured, or the session is over. *)
Start(s) ==
    /\ Goes(s, {"starting"}, "ready") \/ Goes(s, {"starting"}, "closing")
    /\ UNCHANGED <<camera, shots, files, table>>

StartFails(s) ==
    /\ Goes(s, {"starting"}, "ended") /\ camera' = camera \ {s}
    /\ UNCHANGED <<shots, files, table>>

Close(s) ==
    /\ Goes(s, {"closing"}, "ended") /\ camera' = camera \ {s}
    /\ UNCHANGED <<shots, files, table>>

-------------------------------------------------------------------------------
(* _run_session *)

Capture(s) ==
    /\ Goes(s, {"ready"}, "captured")
    /\ shots[s] < MaxShots /\ shots' = [shots EXCEPT ![s] = @ + 1]
    /\ UNCHANGED <<camera, files, table>>

CaptureFails(s) ==
    /\ Goes(s, {"ready"}, "ready")
    /\ shots[s] < MaxShots /\ shots' = [shots EXCEPT ![s] = @ + 1]
    /\ UNCHANGED <<camera, files, table>>

WriteImage(s) ==
    /\ Goes(s, {"captured"}, "written")
    /\ images' = images \cup {Shot(s)} /\ UNCHANGED damaged
    /\ UNCHANGED <<camera, shots, table>>

(* imwrite gives back false; a part of the file may be there. *)
LeavesPart(s) ==
    /\ damaged' = damaged \/ damaged' = damaged \cup {Shot(s)}
    /\ UNCHANGED images
WriteImageFails_Unheeded(s) ==
    /\ Goes(s, {"captured"}, "written") /\ LeavesPart(s)
    /\ UNCHANGED <<camera, shots, table>>
WriteImageFails(s) ==
    /\ Goes(s, {"captured"}, "ready") /\ LeavesPart(s)
    /\ UNCHANGED <<camera, shots, table>>

(* 'q', Ctrl-C or an error: the finally block of _open_camera follows. *)
Leave(s) ==
    /\ Goes(s, {"ready", "captured", "written"}, "closing")
    /\ UNCHANGED <<camera, shots, files, table>>

-------------------------------------------------------------------------------
(* _append_manifest_row: what is written stays in the handle until close. *)

OpenManifest_ExistsOnly(s) ==
    /\ Goes(s, {"written"}, "appending")
    /\ heading' = [heading EXCEPT ![s] = ~created]
    /\ created' = TRUE
    /\ UNCHANGED <<camera, shots, files, manifest, saved>>
OpenManifest_Truncating(s) ==
    /\ Goes(s, {"written"}, "appending")
    /\ heading' = [heading EXCEPT ![s] = TRUE]
    /\ created' = TRUE /\ manifest' = <<>>
    /\ UNCHANGED <<camera, shots, files, saved>>
OpenManifest(s) ==
    /\ Goes(s, {"written"}, "appending")
    /\ heading' = [heading EXCEPT ![s] = ~created \/ manifest = <<>>]
    /\ created' = TRUE
    /\ UNCHANGED <<camera, shots, files, manifest, saved>>

Top(s) == IF heading[s] THEN <<HeaderLine>> ELSE <<>>

AppendRow(s) ==
    /\ Goes(s, {"appending"}, "ready")
    /\ manifest' = manifest \o Top(s) \o <<Row(Shot(s))>>
    /\ saved' = saved \cup {Shot(s)}
    /\ UNCHANGED <<camera, shots, files, created, heading>>

(* Ctrl-C or an error after the file was opened; what reached the handle   *)
(* is written as it is closed, and a full disk cuts it.                    *)
AppendFails_Continues(s) ==
    /\ Goes(s, {"appending"}, "ready") /\ UNCHANGED manifest
    /\ UNCHANGED <<camera, shots, files, created, heading, saved>>
AppendFails_Reported(s) ==
    /\ Goes(s, {"appending"}, "ready") /\ UNCHANGED manifest
    /\ saved' = saved \cup {Shot(s)}
    /\ UNCHANGED <<camera, shots, files, created, heading>>
AppendFails(s) ==
    /\ Goes(s, {"appending"}, "closing")
    /\ \/ UNCHANGED manifest
       \/ manifest' = manifest \o Top(s)
       \/ manifest' = manifest \o Top(s) \o <<Row(Shot(s))>>
       \/ /\ ~heading[s]
          /\ \E place \in Cuts : manifest' = manifest \o <<CutRow(Shot(s), place)>>
    /\ UNCHANGED <<camera, shots, files, created, heading, saved>>

-------------------------------------------------------------------------------
(* A kill at any point: the handle is not written, the camera is free. *)
Crash(s) ==
    /\ Goes(s, {"starting", "ready", "captured", "written", "appending", "closing"}, "ended")
    /\ camera' = camera \ {s}
    /\ LeavesPart(s) /\ (damaged' # damaged => pc[s] = "captured")
    /\ UNCHANGED <<shots, table>>

(* The operator removes an image that turned out badly. *)
Discard(i) ==
    /\ i \in images
    /\ images' = images \ {i} /\ UNCHANGED damaged
    /\ UNCHANGED <<pc, camera, shots, table>>

Step(s) ==
    \/ Acquire(s) \/ Unavailable(s) \/ Start(s) \/ StartFails(s) \/ Close(s)
    \/ Capture(s) \/ CaptureFails(s) \/ WriteImage(s) \/ WriteImageFails(s) \/ Leave(s)
    \/ OpenManifest(s) \/ AppendRow(s) \/ AppendFails(s) \/ Crash(s)

Next == (\E s \in Sessions : Step(s)) \/ (\E i \in Images : Discard(i))
Spec == Init /\ [][Next]_vars

-------------------------------------------------------------------------------
Rows == {i \in Images : \E n \in DOMAIN manifest : manifest[n] = Row(i)}

(* A row after a cut one is on the same line.                              *)
Cut(n)   == manifest[n].upto # "end"
Glued(n) == n > 1 /\ Cut(n - 1)

(* train_dirt_detection.py stops at a table without its header, at a line  *)
(* with too many fields (a row glued to one that was cut after its first   *)
(* comma), and at a last row that has no filename to join.                 *)
Refused ==
    \/ manifest = <<>> \/ manifest[1] # HeaderLine
    \/ \E n \in DOMAIN manifest :
          /\ Cut(n)
          /\ IF n < Len(manifest) THEN manifest[n].upto # "session_id"
                                  ELSE manifest[n].upto \in {"session_id", "class"}

(* The images it trains on: those whose path it can make out.              *)
Named ==
    {i \in Images : \E n \in DOMAIN manifest :
        manifest[n].of = i /\ manifest[n].upto \in {"rest", "end"} /\ ~Glued(n)}
TrainingSet ==
    IF Refused THEN {}
    ELSE {i \in Named : i \in images \cup damaged /\ i[1] \notin Aux}

TypeOK ==
    /\ pc \in [Sessions -> {"prompt", "starting", "ready", "captured", "written",
                            "appending", "closing", "ended"}]
    /\ camera \subseteq Sessions /\ shots \in [Sessions -> 0..MaxShots]
    /\ images \subseteq Images /\ damaged \subseteq Images /\ saved \subseteq Images
    /\ created \in BOOLEAN /\ heading \in [Sessions -> BOOLEAN]
    /\ manifest \in Seq(Lines)

(* _append_manifest_row, "writing the header on first creation": a table   *)
(* with anything in it has its header, first and once, though a session    *)
(* may die between making the file and writing to it.                      *)
HeaderFirst ==
    \A n \in DOMAIN manifest : manifest[n] = HeaderLine <=> n = 1

(* The result of imwrite is heeded: no row names a file that the training  *)
(* could open and not read, at which it would stop.                        *)
TrainingCanRead == TrainingSet \cap damaged = {}

(* The image is written before its row; whatever happens between the two   *)
(* ends the session, which leaves at most one image without a row.         *)
OneOrphanEach ==
    \A i, j \in images \ Rows : i[1] = j[1] => i = j

(* A full disk has cut a row, in this session or one before it.            *)
Torn == \E n \in DOMAIN manifest : Cut(n)

(* "saved" is true: an image so reported, and not discarded, is trained on *)
(* whatever was interrupted, failed or was killed.  Only a cut row may     *)
(* stop the whole training, or have the image's own row in its line.       *)
SavedIsTrainable ==
    \A i \in saved \cap images :
        \/ i[1] \in Aux \/ i \in TrainingSet
        \/ Torn /\ Refused
        \/ \E n \in DOMAIN manifest : manifest[n] = Row(i) /\ Glued(n)

(* The table is only ever added to: whatever a later session writes, fails *)
(* to write or dies at, it takes no image out of the training; only the    *)
(* operator who discards it does, and a cut row that stops all training.   *)
TrainingKept ==
    [][TrainingSet \ TrainingSet' \subseteq images \ images' \/ (Torn /\ Refused)']_vars
===============================================================================
