# Verification of the solar-pi edge gateway

TLA+ models of the LightTrack gateway (`src/pi_gateway`), TLC configurations that
check them on small instances, and proofs of their main theorems in TLAPS. The
gateway is one asyncio process on a Raspberry Pi: it relays what an ESP32 says over
MQTT to a backend over one WebSocket, keeps what it cannot send in SQLite, relays
the backend's commands to the ESP32, takes pictures and scores them for dirt.

Paths are relative to the repository; `ws_client.py` and the like are under
`src/pi_gateway/`.

## 1. Inventory

| component | state it keeps | operations | talks to |
|---|---|---|---|
| Offline buffer `offline_buffer.py` | one SQLite table, one row per message id | `enqueue`, `get_pending`, `mark_sent`, `cleanup`, each in a worker thread on its own connection | used by the WebSocket client and the cleanup task |
| WebSocket client `ws_client.py` | `_ws`, `_stop_event`, `_last_command_id`, the local `backoff`, one flush task per connection | `run`, `send`, `send_or_buffer`, `_flush_buffer`, `_receive_loop`, `stop` | backend, buffer, dispatcher |
| Gateway `app.py` | the tasks and the stop event | start, `_forward_*`, heartbeat, hourly cleanup, vision cycle, stop | everything |
| Command dispatcher `dispatcher.py` | none | `dispatch`: camera, MQTT or a FAILED report | MQTT bridge, capture, client |
| MQTT bridge `mqtt_bridge.py` | paho client and its outgoing queue, inflight counter | `publish_command`, `_on_message`, `_wrap_handler` | ESP32, event loop |
| Camera manager `camera_manager.py` | the camera, a lock with a timeout | `start`, `capture_full_frame`, `stop`, `is_ok` | capture threads |
| Capture `capture.py`, `storage.py` | none | `capture_and_upload` in a thread under a timeout, reports | camera, storage, client |
| Vision `vision.py` | the interpreter and its lock | quality gate, `predict`, overlay, `detect_and_report` | storage, client |
| Telemetry validation `telemetry.py` | none | clamp and range-check | forwarders |
| Dataset session `dataset/capture_dataset.py` | image files and a manifest | one interactive session | camera |
| Image pipeline `preprocessing.py`, `surface_analysis.py` | none | warp, resize, overlay without the bus bars | vision |
| Training, inference, diagnostics | none | the rows the training keeps, the probe of the quality gate, numerical scripts | dataset, camera |
| Configuration, logging | none | constants and log lines | - |

What makes it hard, and what correct means for each part:

* **Client and buffer.** Callers, the flush task, worker threads and the network
  interleave at every `await`; a connection can be dead without anybody knowing; the
  process can die at any point and only the table survives; tasks are cancelled while
  their threads go on. Correct: a message that `send_or_buffer` took is written or
  kept; a row is marked as sent only if it was written; nothing is repeated on one
  connection; the flush is oldest first and empties the table; a loss is retried; a
  stop ends the client.
* **Commands.** A command must be answered once, with the truth: the publish, the
  ESP32's ACK and the FAILED of the gateway race.
* **MQTT ingress.** The inflight counter is shared by two threads; its limit must
  bound the work, and no exit may leak a slot.
* **Camera and capture.** A timeout leaves a thread behind that still holds or wants
  the camera; stop races with it; two askers share one interpreter and, with the
  inserts of the buffer, the few threads of one executor. Correct: one thread drives
  the sensor; a picture is announced only if it is stored, and has one story; a score
  is the picture's own; one wedged call stops nobody else.
* **Background tasks.** One failing step must not end a loop that says it survives.
* **Validation and scoring.** Boundaries, rounding, not-a-number; two limits written
  apart that have to agree, a probe that copies the gate.
* **Bus-bar removal.** Two openings must take the bars and leave the deposits.
* **Dataset.** A session is interrupted or killed between the image, the creation of
  the table and its row. Correct: one header, no row for an unreadable file, at most
  one image without a row, and "saved" means that the training will find it.

`PROJECT.json` lists each hazard at its line with the properties that watch it.

## 2. Modules

```
OfflineBuffer      the table: pure operators
  WsClient         client + buffer + callers + stop + network        (state machine)
    WsClientInv    the inductive invariant
      MCWsClient            model values for TLC
      WsClientProofs        types
        WsClientSafetyProofs      invariants
          WsClientRefinementProofs  WsClient implements StoreAndForward
StoreAndForward    what the uplink promises its callers             (abstract)

Commands           backend frames, dispatcher, publish, paho's queue  (state machine)
  CommandsInv        the inductive invariant
    MCCommands         sequences of commands for TLC
    CommandsProofs     types, invariants, the refinement
CommandLedger      what the backend is promised about commands      (abstract)

MqttIngress        inbound MQTT: network thread, slots, forwarders    (state machine)
  MCMqttIngress      messages for TLC
  MqttIngressProofs  the counter, the bound, the drops, the refinement
BoundedGate        what a backpressure counter promises             (abstract)

Camera             the lock and the calls of picamera2: actions
  Pictures           captures, reports, detection, vision loop, stop   (state machine)
    PicturesInv        the inductive invariant
      MCPictures         askers and threads for TLC
      PicturesProofs     types, invariants, the stop, the refinement
PictureStory       what may be said of a picture                    (abstract)

FrameQuality       the gate and the probe: pure operators
  DirtScoring        from probabilities to a report: pure operators
TelemetryValidation  clamping and ranges: pure operators
SurfaceMask        openings of a mask: pure operators
  Assess             each of these on every given input               (state machine)
    MCAssess           inputs for TLC
    AssessProofs       the judgements, for every input

DatasetSession     sessions, files, manifest, training set            (state machine)
  MCDatasetSession   for TLC
  DatasetProofs      the inductive invariant, types, invariants, the training set
```

The state machines of the gateway meet in `send_or_buffer`: `Commands`, `MqttIngress`
and `Pictures` hand their messages to it and rely on nothing but its outcome, which
`WsClient` models. `Pictures` splits into threads what `Commands` sees of a capture:
its outcome, its timeout, its reports.

**OfflineBuffer.** `buf` is a function from ids to rows; a row is absent, pending or
sent, with one time stamp (`created_at` while pending, `sent_at` afterwards, the only
ones the statements read). Every statement commits before it returns, so each is one
step of the module that uses it. `Batches` is the set of answers SQLite may give: the
`LIMIT` oldest pending rows, ties in any order.

**WsClient.** One action per stretch of code between two suspension points.

| state | code |
|---|---|
| `client` | where `run` is: connecting, serving, in the `finally` block awaiting the cancelled flush, in the delay, ended |
| `outcome` | how the connection being torn down ended: the return, the exception or the cancellation on its way through `finally` |
| `flush` | the flush task's program counter and the rest of its batch; `dead` after an exception |
| `orphans` | `mark_sent` threads whose awaiting task was cancelled: asyncio abandons the future, the thread commits anyway |
| `call` | one `send_or_buffer` per message: suspended in `ws.send`, suspended in `enqueue`, returned, or raised |
| `link`, `log`, `got` | the TCP connection, what was written to it, how much the server has read; `half` is a peer that has vanished |
| `wrote`, `delivered`, `expired`, `backlog` | history for the properties, never read by a guard |

The actions: `SendDirect` / `SendRefused` / `Drained` / `Enqueue` / `EnqueueFails` /
`CallCancelled` are `send_or_buffer`; `Connect` is the handshake up to the first
`await` of the receive loop (`_ws` set, sync request written, flush task created);
`ReceiveLoopEnds` and `ReceiveLoopFails` leave the receive loop; `LeaveServing` is the
`finally` block up to `await flush_task` and `FinishClosing` the rest of it, the end of
the `async with` and the `except` clauses of `run`; `Stop` is what `SolarGateway.run`
does to the client, in each of the places it can be; `Flush*` are the steps of
`_flush_buffer`; `CleanupRun` is one turn of the hourly loop; the rest is the
environment: clock, server, link, crash and restart.

Abstractions. Payloads, ids that are not strings (every caller builds its message with
`build_envelope`, which makes one) and heartbeats (sent without buffer, of no interest
to it) are left out. A frame is in the library's hands as soon as `ws.send` is called;
whether the call also waits for the socket to drain is a choice. The closing handshake
of the library at the end of `async with` is one step with the teardown. The jitter of
the delay only changes when the delay ends, which is free anyway.

**StoreAndForward** knows six places a message can be in (new, held, stored, sent,
expired, lost) and the seven ways it moves. It is what a caller may rely on, without
tasks, threads or connections.

**Commands.** The receive loop handles one frame at a time, so one program counter is
all the gateway has.

| state | code |
|---|---|
| `inbox` | frames the library has buffered and `async for` has not yet yielded |
| `lastId` | `_last_command_id`, set before anything else is done about a command |
| `handler` | where `dispatch` is suspended: in `wait_for` of the capture, in `ws_send` of a report, in the detection after it |
| `mqtt`, `out`, `passed` | paho's connection to the broker, its outgoing messages, those already sent on this connection |
| `issued`, `link` | what the backend has issued, and the WebSocket connection as in `WsClient` |
| `handled`, `reports`, `ran`, `unsaid`, `lost` | history for the properties; `unsaid` are reports that raised, `lost` what was at work or in paho's queue as the process ended |

`TakeCapture`, `TakeUnknown`, `Publish` and `PublishRefused` are the branches of
`dispatch` up to its first suspension, each with the part of `_handle_incoming` before
it; `TakeNameless` is its return for an empty id and `TakeGarbled` the error it raises on
a payload that is no object or a `command_type` that is a list or an object, which
`_handle_incoming` logs. (`args` of a wrong type raise nothing: they are handed on.)
 `CaptureEnds`, `CaptureTimesOut`, `Report`, `ReportRaises` and `VisionEnds` are
`handle_capture_image` and the end of a report; `Restart` is a crash as well as a stop
and a new start. Assumed of the outside: the backend answers the `sync_request`
before it sends anything else, with commands after the given id in their order, and
with none when the id is missing or empty; paho (2.1, pinned) queues a QoS 1 message whatever
`publish` returns. Frames that are not commands, and the ESP32's answers, change
nothing here.

**CommandLedger** is an ordered list of entries with a verdict each: an entry is newer
than all before it, only the last can get a verdict, none is revised, and the ESP32
carries out entered commands of its own kind, at any later time. `Commands` implements
it with `handled`, `reports` and `ran`.

**MqttIngress.** `at` says how far each invocation of `_on_message` has come: on the
network thread (`"thread"`), scheduled on the loop (`"task"`), awaiting
`send_or_buffer` (`"send"`), or over in one of seven ways. `TakeSlot`, `Drop`,
`RejectGarbled` and `Schedule` run on the one network thread; `RejectInvalid`,
`StartSend`, `Relay` and `SendFails` on the event loop, under the `finally` of
`_wrap_handler`. `Stop` joins the thread; afterwards `asyncio.run` cancels what is
left: `CancelBegun` passes the `finally`, `CancelUnbegun` never enters it.

**BoundedGate** has no counter: it lets a message in while fewer than `Room` are
inside, turns it away for good when there is no room and for no other reason, and is
shut once. `MqttIngress` implements it: who is inside is who is at work (`Busy`).

**Camera** and **Pictures.** A picture is asked for by a command (`Manual`) or by the
vision loop (`Periodic`); its thread, its coroutine and its other executor jobs are
three places in the state. A call of picamera2 lies between two actions of its thread.

| state | code |
|---|---|
| `camera`, `lock` | `_camera` (is there one) and `_lock` of `CameraManager` |
| `at` | each thread: waiting for the lock in `start`, `capture_full_frame` or `stop`; in picamera2; with the frame, encoding and uploading; done |
| `task` | the coroutine of a picture: in `wait_for` of the capture, in `ws_send`, in `to_thread` of the gate, the model or the overlay |
| `step`, `queue` | the executor job it awaits and the jobs no thread has taken yet; while a thread inserts a report, `step` is that report, for the INSERT outlives its task |
| `model`, `tensor` | `_lock` of `DirtDetector`, and whose frame is in the interpreter |
| `uploaded` | what is in Storage |
| `gateway`, `loops` | how far `run` is in its end, and which of the receive loop and the vision loop still run |
| `blocked`, `scoreOf`, `reports` | history for the properties |

`StartCalled` ... `StopEnds` are the three methods of the camera manager, split at the
lock and at the sensor; `LockTimesOut` is the `CameraError` of `_locked`. `WorkerTakes`
is a thread of the executor that takes the oldest job. `CaptureTimesOut` is `wait_for`
giving up: a queued job is cancelled, a running one goes on without anybody waiting
for it. `ReportSent`, `StoreReport`, `InsertEnds`, `ReportStored` and `ReportRaises`
are the ways of `send_or_buffer`; a report counts when it is written or when its INSERT
commits. `Stop` is the cancellation of every task, `CancelAgain` the one by the timeout of
`run`'s own `wait_for`, `CallStop` the stop of the
camera in the event loop's own thread, `CancelAll` and `ThreadsJoined` the end of
`asyncio.run`. Before Python 3.12 `wait_for` returns the result of what has ended and
forgets a cancellation that comes in the same instant; the repository asks for
"Python 3" only. So `Cancel` lets any loop whose capture has ended, but has not yet been
resumed, go on as if nothing had happened (`MayBeDeaf`), until it is cancelled again or
its connection ends (`ReceiveEnds`); no other Python does more. The
time of the timeouts (15 s for a capture, 20 s for the lock) is not modelled: a timeout
may fire as soon as there is something to wait for. The upload is assumed to end, as
its HTTP client has timeouts; what the overlay stores is left out.

**PictureStory** is what the server may be told: SUCCESS of a stored picture or FAILED
to a command, once; after a SUCCESS one judgement, neutral if the gate refused the
picture and a score if not. `Pictures` implements it, whatever is late or abandoned.

**Assess** makes one judgement on each given input: `Validated` of a telemetry
message, `VisionResult` of a frame and the model's answer, `RemoveBusBars` of a mask.
A reading is a number in tenths of its unit, absent, not-a-number or of another type;
a frame is its size and the statistics of the region and of the whole, rounded to
integers; probabilities are ten-thousandths that add up to one, and `Half` rounds half
to even as `round` does where the sum of the code is exact. A mask is a set of pixels;
`Eroded` and `Dilated` are those of OpenCV with its default border.

**DatasetSession.** `pc` is where `main` of a session is, `camera` which process
libcamera has given the sensor to, `images` and `damaged` the files, `created` and
`manifest` the table, `heading` the `write_header` of an append under way and `saved`
what the operator was told. `OpenManifest` creates the file, and what `writeheader` and
`writerow` write stays in the handle until `AppendRow` closes it; `AppendFails` is an
interrupt or an error in between, after which some of it is written; `Crash` is a kill,
after which none is. A line of the manifest is whole, or cut before its first comma, before the filename,
within it or behind it; a line after a cut one goes on in the same line (`Glued`).
`Refused` is a table at which `train_dirt_detection.py` stops - no header, a line with too
many fields, a last row without a filename - and `TrainingSet` what it keeps: nothing
then, and otherwise the rows it can make a path of. Not
modelled: two shots in one microsecond, a power cut, which may take back what was
written and not yet synced, and a session id that pandas reads as a number or as missing
(`2026`, `NA`), at which the training stops as well.

Operators named `Op_Something` are slips a maintainer could make in `Op`; they are not
used by any specification, and every property is checked to fail when one takes the
place of `Op`.

## 3. Runs

| run | asks | bounds |
|---|---|---|
| `ws_safety` | the type and safety invariants; `WsClient` implements `StoreAndForward` | 2 messages, 2 connections, 1 crash, clock readings 0..1, batch of 1, limits of 0 ticks |
| `ws_live` | flush drains, loss is retried, stop terminates | 2 messages, 2 connections, 1 crash, still clock |
| `ws_online` (violated) | does a pending message go out while the link is up? | 1 message, 1 connection |
| `cmd_safety` | dispatched once, in order, none forgotten; `Commands` implements `CommandLedger`; none waits for ever | 6 commands: ESP32, without an id, capture, garbled, unknown, ESP32; connections, outages and restarts unbounded |
| `cmd_refused` (violated) | is a refused command really not carried out? | 1 command |
| `ingress` | no slot leaks, slots come back; `MqttIngress` implements `BoundedGate` | 6 messages (good, garbled, refused), 2 slots |
| `pictures` | one driver of the sensor, own scores, what goes on after the stop; `Pictures` implements `PictureStory` | 2 pictures on command, 1 of the vision loop, 2 worker threads; symmetry of the two |
| `pictures_live` | askers and stop go on | 1 picture on command, 1 of the vision loop, 2 worker threads |
| `vision_loop` (violated) | does the vision loop survive every failed cycle? | as `pictures` |
| `assess` | validation, gate, scoring, bus bars | masks of 7 x 5 with kernels of 5 and 3: a rectangle and a run anywhere, lattices of bars, the blocks between them; values on both sides of every limit; probabilities on a grid of 2% and next to it |
| `assess_lines` (violated) | is only a run as long as its kernel removed? | the same masks |
| `dataset` | header, readable rows, one orphan, "saved" is true, nothing leaves the training by itself | 2 sessions, one of them "aux", of 2 shots |

Two messages are enough for order, for a batch that is not the whole table and for a
row read again beside a direct send; two connections for a flush, a stray `mark_sent`
and a call that outlive the first; a clock with two readings for rows of different age
and a cleanup that takes one of two. Limits are in ticks of that clock, so 0 makes
a row of the previous tick too old. The proofs lift every bound for the safety
properties and the refinement. Deadlock is not an error: after a stop, or with all
connections used, all messages passed on or all pictures taken, nothing is left to do.
Symmetry under permutations of the messages is used where no liveness is checked.

**What the safety run shows.** `SentRowWasWritten`: no crash, cancellation or stray
thread marks a row nobody wrote. `NothingDropped`: a returned call is accounted for.
`WrittenOncePerConnection`: neither the flush and a direct send, nor a stray
`mark_sent`, repeats a message on one connection (on the next one it may be repeated:
delivery is at least once). `BacklogOldestFirst`: across batches. `StopIsFinal`: nothing
is retried or served after a stop. `ImplementsStore`: over both connections and the
crash, a message only moves as the abstract store lets it.

**What the command run shows.** `HandledOnceInOrder`: replays never repeat or reorder
a command, because the id is kept before the handler runs and a connection is not
replaced while a handler is at work. `ImplementsLedger`: one verdict for each command,
given while no newer one was dispatched and never revised (a capture that comes in
after its timeout is not reported again); SUCCESS for captures only; the ESP32 carries
out what was dispatched and is its own. `NoneForgotten`: a command without an
answer that is not at work, with the ESP32 or on the way there is one of four: its
process ended, its report met a closed connection and a failing buffer, it had no id, or
`dispatch` could not read it. `InboxServed`: none
waits for ever behind a camera that hangs. The six commands put a capture, whose handler
takes time, before others of each kind, and let a replay skip some.

**What the ingress run shows.** `CountExact`: the counter is the number of slots in
use on every path of both threads. `ImplementsGate`: never more at work than the limit,
a message is dropped only while that many are, never as the echo of an earlier leak,
and none is taken twice or after the stop. `SlotsComeBack`.
Two slots and six messages fill, empty and fill the limit again.

**What the picture run shows.** `SensorSafe`: mutual exclusion in the sensor, and no
use of a camera that `stop` has taken away, with threads that outlive their task.
`ImplementsStory`: nothing is announced that is not stored, and nothing said too
late or against what was said before, by whatever thread (a literal repetition does not
show, as `reports` is a set; that each report is new when it is said is proved,
*ReportInHand*). `OnlyTheDeafGoOn`: what the stop cancels does not begin, and only an
INSERT under way still reports - except in a loop whose capture ended as it was
cancelled, which goes on, and jobs and reports with it. `ScoredOwnFrame`: the
interpreter's lock covers all three calls. Three pictures put one that outlived its task
beside one of each asker. The run `pictures_live`: `AskerGoesOn`: a camera that hangs for
ever costs one thread, and every picture is answered or given up; this needs the second
worker. `StopReturns`: `run` gets past the camera's lock. Two pictures are enough to
occupy both workers and to keep the lock from the stop.

**What the assessment run shows.** `ForwardedIsSane`, `OnlyNoiseClamped`: what passes
is within its limits, and only the noise is changed. `ProbeAgrees`: the copy in
diagnostics is a copy. `SureIsReported`, `DirtierIsNotCleaner`, `CleaningFollowsClass`:
the class made from the level is the model's when the model is sure (68%), rounding
keeps the order, the limits 66 and 66 do not contradict. `CompactDepositsSurvive` and
`OnlyRunsRemoved`: what the openings take away, exactly: runs as long as the kernel, and
at the border of the panel already those longer than half of it, which is more than
the docstring says (`assess_lines`). A panel of 7 x 5 with kernels of 5 and 3 has runs
that are removed and touch no border, runs too short, and gaps wider than a kernel.

**What the dataset run shows.** `HeaderFirst`: also for a file that a killed session
left empty. `TrainingCanRead`, `OneOrphanEach`: whatever fails or is interrupted.
`SavedIsTrainable`, `TrainingKept`: an image reported as saved is trained on, and no
step of a session takes one from the training. A row that a
full disk has cut may stop the whole training, at once or when the next session appends
to its line; the two properties except a training so stopped, the first also the image
whose own row is in that line, and nothing else. Two sessions overlap, follow one another, and take over from a killed one.

**Fairness** of `WsClient` (`FairSpec`): weak fairness of the steps the event loop or a thread will
take when they are ready (`FlushSelect`, `FlushSend`, `FlushMark`, the two ways a
receive loop ends, the delay's timer) and of two that the library guarantees:
`PingTimeout`, since `ping_interval` and `ping_timeout` are set, and `DrainResolves`,
since a connection whose socket does not drain is given up in the end, by the keepalive
or by TCP itself. None of callers, server,
connection attempts, clock, stop or crash. Of `Commands`: the loop takes a frame that is there,
the timer of `wait_for` fires, a report and a detection end; nothing of the thread
that captures. Of `MqttIngress`: the network thread finishes `_on_message`, the loop
runs what is scheduled, `send_or_buffer` returns; no message has to come. Of
`Pictures`: as long as a worker, a coroutine, a timer or the lock can go on, something
does, and so do the later steps of the stop (`CancelAgain`, `CallStop`, `CancelAll`,
`ThreadsJoined`); nothing of picamera2, no picture has to be asked for, and no connection
has to end.

**Findings.**

1. `ws_online`: `send_or_buffer` finds no connection and inserts in a thread. If the
   client reconnects and its flush reads an empty table before that INSERT commits,
   the message stays in the table until the *next* reconnect, although
   `README.md:31` says buffered messages are flushed once the client is back online.
   (With `BUFFER_MAX_AGE_SECONDS` and a long-lived connection it may be deleted first.)
   The trace is `SendRefused`, `Connect`, `FlushSelect`, `Enqueue`; a flush that dies of a
   database error is excepted from the property.
2. `cmd_refused`: without a broker, `publish` returns `NO_CONN` and the gateway reports
   FAILED (`mqtt_bridge.py:73`); but the message is in paho's queue and goes out on the
   next connection. `mqtt_bridge.py:61` speaks of "successful enqueue", and
   `ws_client.py:146` calls replaying stale motor commands unsafe.
3. `vision_loop`: `send_capture_success` (`app.py:219`) is outside every `try` of the
   cycle. If the gateway is offline and the INSERT fails, the exception ends the vision
   loop until a restart, although `app.py:193` says that a failed cycle "never tears
   down the loop" and `app.py:203` "Never raises".
4. `assess_lines`: OpenCV's default border is no obstacle to the erosion, so a run at the
   border of the panel is removed as soon as it is longer than half the kernel: a deposit
   of two pixels with a kernel of three. `surface_analysis.py:31`: the opening "keeps only
   horizontal runs at least config.SURFACE_HLINE_LENGTH px long", and line 38: "off-bar
   deposits are unaffected".

Met while modelling, against the words of a document; the exceptions that the properties
name are these, and no run of its own asks for them:

* `capture.py:104`: "Never raises; always reports". A report that finds the connection
  closed and the buffer failing raises out of `handle_capture_image` (`capture.py:119`)
  and is only logged: `unsaid` in `NoneForgotten`.
* `dispatcher.py:9`: "reported FAILED so Express never leaves it stuck". A payload that
  is no object, or a `command_type` that cannot be hashed, makes `dispatch` raise before
  it reports (`dispatcher.py:48`, `:59`): `"garbled"` in `NoneForgotten`.
* `capture_dataset.py:139`: "Append one row to the manifest". The file is opened without
  a look at its end (`:141`). After a row that a full disk cut, the row of the next
  session is in the same line; `read_csv` finds too many fields there and refuses the
  table, and with it every image: the exceptions of `SavedIsTrainable` and
  `TrainingKept`.

Met while modelling, and no contradiction to a document:

* A frame counts as sent when it is in the socket. Between the moment the peer vanishes
  and the ping timeout the link is down without the client knowing (`LinkBreaks`): what
  is sent then is not buffered, and nowhere. `README.md:29` speaks of a WebSocket that is
  known to be down.
* A thread that waits for the lock in `start` while `stop` releases the camera opens it
  again; nothing closes it before the process ends, which itself waits for the threads.
* An infinite energy of the day passes the validation, and so does not-a-number, which
  `json.dumps` writes as no JSON parser need read it.
* The class reported is not the one with the largest probability, as
  `inference/predict_dirt.py` prints it: 51% clean and 49% dirty is "slightly_dirty".
* In `_open_camera` of the dataset tool an interrupt between `Picamera2()` and the end
  of `start` skips `close`; the end of the process releases the camera.

## 4. Proofs

Proved for every set of messages, batch size, backoff, limit and bound that the named
assumptions allow (`AgesAssumption`, `BatchAssumption`, `BackoffAssumption`,
`BoundsAssumption`, `SyncAssumption`: limits are natural numbers, a batch is not empty,
the minimal delay is positive and not above the maximal one, the sync request is not a
message):

* `TypeOKHolds` (WsClientProofs).
* `Invariance` of `IInv` and from it `SentRowsAreWritten`, `NothingIsDropped`,
  `NoRepetition`, `FlushOrder`, `StopHolds` (WsClientSafetyProofs).
* `Refinement`: `Spec => ImplementsStore`, and from its steps `BufferedUntilSentOrOld`:
  a pending row keeps its age until it is written or was too old
  (WsClientRefinementProofs).

* `CommandsInvariance` and from it `CommandsTypeCorrect`, `DispatchOrder`,
  `NoSecondVerdict`, `NoCommandForgotten` and the refinement `CommandsKeepALedger`
  (CommandsProofs), from `CommandAssumption`:
  any number of commands of any kinds, with or without the detector.
* `IngressInvariance` and from it `IngressTypeCorrect`, `NoSlotLeaks`, `MemoryIsBounded`,
  `DropsAreHonest` and the refinement `IngressIsAGate` (MqttIngressProofs), from `IngressAssumption`: finitely many messages of any content,
  any limit.
* `PicturesInvariance` and from it `PicturesTypeCorrect`, `OneThreadInSensor`,
  `AnnouncedPicturesExist`, `OneStoryEach`, `ScoresAreOwn`, `StopSparesOnlyTheDeaf` and
  the refinement `PicturesTellTheStory` (PicturesProofs), from
  `CameraAssumption` and `PicturesAssumption`: finitely many pictures of either asker,
  an executor of any size.
* `TelemetryIsSane`, `OnlyNoiseIsLost`, `ProbeTellsTheGate`, `SureClassIsReported`,
  `DominatedIsNotCleaner`, `MoreDirtIsNotCleaner`, `CleaningMatchesClass`,
  `DepositsSurvive`, `LinesAreRemovedExactly`, `NoLineIsLeft` (AssessProofs), from
  `AssessAssumption` and `SurfaceAssumption`: any inputs of the right types, any panel
  and kernels of odd length.
* `DatasetInvariance` and from it `DatasetTypeCorrect`, `OneHeaderOnTop`,
  `NoDamagedFileInTraining`, `OrphanAtMostOne`, `SavedIsKept`,
  `TrainingOnlyLosesDiscarded` (DatasetProofs), from
  `DatasetAssumption`: any sessions and shots.

Except for those of `Assess`, whose only step is the judgement (*JudgedInput*), none of
the properties is inductive alone. `IInv` of `WsClientInv` adds what must be true in
between:

* *MarkFollowsWrite*: not only the sent rows but the heads of batches past their
  `ws.send` and the stray `mark_sent` threads have been written - without it a step
  `FlushMark` or `OrphanMark` from a made-up state would mark an unwritten row.
* *NothingToRepeat*: what is already on the connection and may come again (pending,
  or in the batch, or on its way into the table) is only the head of the batch between
  its write and its mark. This is what makes a flush and direct sends disjoint. It
  needs *StoredIsSettled* (a message in the table has no call left that could send
  it), *IdleIsUnwritten*, *FlushOnlyWhileServing* and *LinkFollowsClient* (a new
  connection starts with an empty log and no old flush).
* *BatchInOrder*: the batch is ordered and the backlog outside of it is not older; a
  SELECT establishes it, and rows inserted later are not in the backlog.
* *BatchIsKnown*: for the refinement, a message the flush holds is written, still
  pending or expired, so that sending it is a step the store allows.

The refinement maps `wrote`, the table, `expired` and `call` to the abstract phase, in
that order; each action of `WsClient` is one abstract step or a stutter, and `Crash` is
`Lose` of the messages whose INSERT was under way.

For `Commands`, order rests on *InboxInOrder* (what waits is newer than all that was
dispatched) and *LastIdIsLast* (a replay starts behind it); the single verdict on
*HandlerIsLast* (the command at work was dispatched and has no verdict yet) with
*ReportedWasHandled* (a new command has none either); *PassedIsRun* accounts for a
command that paho forgets after its acknowledgement, and *Accounted* says of each entry
of `handled` what `NoneForgotten` says of the set. For `MqttIngress`, the bound and
the drops follow from the exact count; *UnbegunOnlyAfterStop* separates the slots that
a cancelled coroutine keeps from those in use while messages are still taken.

For `Pictures`, the sensor's safety rests on itself and *CallsBegin* (a new call finds
its thread in no other). All that is said rests on *ReportInHand*: a report that waits,
in its coroutine or in the thread that inserts it, with or without a task, would be
true and new if it were said now (*MaySay*). That needs *GoesOnWithPicture* (a coroutine
past the capture has its picture in Storage), *SaidSoFar* (what has been said follows
from where the coroutine is), *OwnTensor* and *OwnScore* (the tensor, and then the score,
are of the lock holder's picture) and *RightPlace* (only a command is told of a failure,
only a loaded detector judges). `OnlyTrueReports` then says that a step adds at most one
report, and a true one, from which the invariants and the refinement follow alike. The
stop rests on *AwaitedByALoop*: a job that waits is awaited by an active coroutine, which
runs in its loop and is the only one there, so that the loops that a cancellation
spares account for every job and report that follows. For `DatasetSession`, the header rests on *OneCamera* (who has
the camera is alone in the table) and *HeadingStands* (so the decision made before the
file was opened still holds), the rows on *InHand* (the shot in hand is on disk as far
as `pc` says and has no line), *TakenOnly* and *ListedAreWhole* (no line, whole or cut,
is of a damaged file), the orphans on *Orphans* (an image without
a row is the last shot of a session that is on its way out). In `AssessProofs` the
lemmas that carry weight are *HalfMonotone* for the levels, *KernelCoversGap* for the
deposits, and *NearestGaps* with *RunIsLine* for the lines: a pixel is in the opening
just when the run around it, counted, is a line; *RunsShrink* makes the removal
idempotent. `SavedIsTrainable` and `TrainingKept` rest on *OnlyCutsRefused* (a table with
anything in it has its header, so only a cut row makes the training refuse it) and on
*Appended* (a step only extends the table, so that a row keeps its line).

The refinement of `CommandLedger` needs *LedgerInv*: *HandlerIsNewest* (the command at
work is the last entry), *SuccessIsACapture* and *QueuedWasPublished* (what paho holds
was dispatched and is the ESP32's). That of `BoundedGate` needs the exact count, as
lemma *CountedInside*: the counter compared with the limit and the number of those inside
compared with `Room` decide alike while messages come.

`AnnouncedPicturesExist`, `OneStoryEach`, `MemoryIsBounded`, `DropsAreHonest` and
`NoSecondVerdict` are invariants and an action property that the refinements contain
and no run asks for separately; `DominatedIsNotCleaner`, `NoLineIsLeft` and
`BufferedUntilSentOrOld` go beyond what the runs ask.

Model-checked only: the liveness properties `FlushDrains`, `LossLeadsToRetry`,
`StopTerminates`, `InboxServed`, `SlotsComeBack`, `AskerGoesOn` and `StopReturns`
(liveness under fairness is out of the prover's reach). The violated properties are not theorems, of course.

## 5. Not modelled

* The heartbeat, which is sent or not and kept nowhere, and the signal handlers, which
  only set the stop event.
* The warp, the resize, the blur, the threshold and the blending of the image pipeline,
  the training, the single-image inference and the bus-bar probe: numerical code in a
  straight line, whose results are real numbers made by OpenCV, NumPy and TensorFlow.
* The loading of the model: the constant `VisionLoaded`.
* Configuration and logging: the constants that matter are constants of the modules.
* MQTT broker, ESP32, backend, Storage, picamera2 and the operating system are
  environments: they do what the code must be prepared for.
* What a broker keeps for a client that comes back is paho's session, not this code;
  the delay between two reconnects is free, so that its growth only matters for types.
