------------------------------- MODULE Commands -------------------------------
(***************************************************************************)
(* The way of a command: the backend's frames in the receive loop of       *)
(* ws_client.py, dispatcher.py, the local handler of capture.py, and       *)
(* publish_command of mqtt_bridge.py with the outgoing queue of paho.      *)
(*                                                                         *)
(* Commands are numbered in the order in which the backend issues them.    *)
(* Reports are handed to send_or_buffer; what becomes of them there is the *)
(* subject of WsClient and StoreAndForward.                                *)
(***************************************************************************)
EXTENDS Integers, Sequences, SequencesExt

CONSTANTS
    NumCmds,      \* bound: how many commands the backend issues
    Kind,         \* what each of them asks for
    VisionLoaded  \* the dirt detector was loaded at startup

Cmds  == 1..NumCmds
(* "garbled": the payload is no object, or its command_type is a list or   *)
(* an object.  "noid": the id is the empty string.                         *)
Kinds == {"esp32", "capture", "unknown", "garbled", "noid"}
None  == 0

ASSUME CommandAssumption ==
    /\ NumCmds \in Nat
    /\ Kind \in [Cmds -> Kinds]
    /\ VisionLoaded \in BOOLEAN

VARIABLES
    \* the backend and the connection
    issued,   \* the last command issued
    link,     \* the WebSocket connection
    inbox,    \* frames that have reached the Pi and wait for the receive loop
    \* the gateway
    lastId,   \* _last_command_id
    handler,  \* the one command the receive loop is handling
    \* the local broker
    mqtt,     \* paho holds a connection to it
    out,      \* paho's outgoing queue: published, not yet acknowledged
    passed,   \* those of out that went over the present connection
    \* what the properties observe
    handled,  \* the commands that were dispatched, in order
    reports,  \* the verdicts of the gateway
    ran,      \* commands the ESP32 has received
    unsaid,   \* the report of the command was lost in an error
    lost      \* at work or on the way to the ESP32 as the process ended

gatewayVars == <<lastId, handler>>
brokerVars  == <<mqtt, out, passed>>
historyVars == <<handled, reports, ran, unsaid, lost>>
vars == <<issued, link, inbox, gatewayVars, brokerVars, historyVars>>

Statuses == {"SUCCESS", "FAILED"}
Idle     == [pc |-> "idle", cmd |-> None, status |-> "FAILED"]
Reporting(c, s) == [pc |-> "report", cmd |-> c, status |-> s]

(* "capture": the worker thread is awaited.  "report": ws_send is.         *)
(* "vision": the dirt detection that follows a successful capture is.      *)
TypeOK ==
    /\ issued \in 0..NumCmds
    /\ link \in {"down", "up", "half", "closed"}
    /\ inbox \in Seq(Cmds)
    /\ lastId \in Cmds \cup {None}
    /\ handler \in [pc : {"idle", "capture", "report", "vision"},
                    cmd : Cmds \cup {None}, status : Statuses]
    /\ handler.pc = "idle" <=> handler.cmd = None
    /\ handler.pc = "vision" => handler.status = "SUCCESS"
    /\ mqtt \in BOOLEAN
    /\ out \subseteq Cmds /\ passed \subseteq out
    /\ handled \in Seq(Cmds)
    /\ reports \subseteq Cmds \X Statuses
    /\ ran \subseteq Cmds
    /\ unsaid \subseteq Cmds /\ lost \subseteq Cmds

Init ==
    /\ issued = 0 /\ link = "down" /\ inbox = << >>
    /\ lastId = None /\ handler = Idle
    /\ mqtt = FALSE /\ out = {} /\ passed = {}
    /\ handled = << >> /\ reports = {} /\ ran = {}
    /\ unsaid = {} /\ lost = {}

Increasing(s) == \A i, j \in DOMAIN s : i < j => s[i] < s[j]

-------------------------------------------------------------------------------
(* The connection.                                                         *)

(* The backend answers the sync_request with the commands after the last   *)
(* one the Pi has seen, or with none after a restart, and it need not      *)
(* repeat those it has given up.                                           *)
Replays(last) ==
    IF last = None THEN {<< >>}
    ELSE {s \in SeqOf((last + 1)..issued, NumCmds) : Increasing(s)}

Connect ==
    /\ link = "down"
    /\ link' = "up"
    /\ inbox' \in Replays(lastId)
    /\ UNCHANGED <<issued, gatewayVars, brokerVars, historyVars>>

(* A command issued without a live connection reaches nobody. *)
Issue ==
    /\ issued < NumCmds
    /\ issued' = issued + 1
    /\ inbox' = IF link = "up" THEN Append(inbox, issued + 1) ELSE inbox
    /\ UNCHANGED <<link, gatewayVars, brokerVars, historyVars>>

LinkBreaks ==
    /\ link = "up"
    /\ link' = "half"
    /\ UNCHANGED <<issued, inbox, gatewayVars, brokerVars, historyVars>>

LinkClosed ==
    /\ link \in {"up", "half"}
    /\ link' = "closed"
    /\ UNCHANGED <<issued, inbox, gatewayVars, brokerVars, historyVars>>

(* What had arrived before the close is still read; then the loop ends. *)
ReceiveLoopEnds ==
    /\ link = "closed" /\ inbox = << >> /\ handler.pc = "idle"
    /\ link' = "down"
    /\ UNCHANGED <<issued, inbox, gatewayVars, brokerVars, historyVars>>

(* A frame that is JSON but no object raises, or the library discards what *)
(* it had buffered: the frames behind are dropped with the connection.     *)
ReceiveLoopFails ==
    /\ link # "down" /\ handler.pc = "idle"
    /\ link' = "down" /\ inbox' = << >>
    /\ UNCHANGED <<issued, gatewayVars, brokerVars, historyVars>>

-------------------------------------------------------------------------------
(* _handle_incoming and dispatch, up to the first suspension.              *)

NextCmd == Head(inbox)

(* The id is kept before anything is done about the command; an empty one  *)
(* is a string, and names none.                                            *)
IdOf(c) == IF Kind[c] = "noid" THEN None ELSE c

Received_OnlyIfForwarded ==
    /\ inbox # << >> /\ handler.pc = "idle"
    /\ inbox' = Tail(inbox)
    /\ lastId' = IF Kind[NextCmd] = "esp32" THEN NextCmd ELSE lastId
    /\ handled' = Append(handled, NextCmd)
Received ==
    /\ inbox # << >> /\ handler.pc = "idle"
    /\ inbox' = Tail(inbox)
    /\ lastId' = IdOf(NextCmd)
    /\ handled' = Append(handled, NextCmd)

TakeCapture ==
    /\ Received
    /\ Kind[NextCmd] = "capture"
    /\ handler' = [pc |-> "capture", cmd |-> NextCmd, status |-> "FAILED"]
    /\ UNCHANGED <<issued, link, brokerVars, reports, ran, unsaid, lost>>

TakeUnknown_Unanswered ==
    /\ Received
    /\ Kind[NextCmd] = "unknown"
    /\ UNCHANGED <<issued, link, handler, brokerVars, reports, ran, unsaid, lost>>
TakeUnknown ==
    /\ Received
    /\ Kind[NextCmd] = "unknown"
    /\ handler' = Reporting(NextCmd, "FAILED")
    /\ UNCHANGED <<issued, link, brokerVars, reports, ran, unsaid, lost>>

(* dispatch raises before it has looked for a branch; _handle_incoming     *)
(* logs the error, and so nobody is told.                                  *)
TakeGarbled ==
    /\ Received
    /\ Kind[NextCmd] = "garbled"
    /\ UNCHANGED <<issued, link, handler, brokerVars, reports, ran, unsaid, lost>>

(* Without an id there is nothing to report on: dispatch returns. *)
TakeNameless ==
    /\ Received
    /\ Kind[NextCmd] = "noid"
    /\ UNCHANGED <<issued, link, handler, brokerVars, reports, ran, unsaid, lost>>

(* publish of paho 2.1: with QoS 1 the message enters the outgoing queue   *)
(* in any case; without a connection the result is NO_CONN, and the        *)
(* message is sent as soon as there is one.                                *)
Publish ==
    /\ Received
    /\ Kind[NextCmd] = "esp32" /\ mqtt
    /\ out' = out \cup {NextCmd}
    /\ UNCHANGED <<issued, link, handler, mqtt, passed, reports, ran, unsaid, lost>>

PublishRefused ==
    /\ Received
    /\ Kind[NextCmd] = "esp32" /\ ~mqtt
    /\ out' = out \cup {NextCmd}
    /\ handler' = Reporting(NextCmd, "FAILED")
    /\ UNCHANGED <<issued, link, mqtt, passed, reports, ran, unsaid, lost>>

-------------------------------------------------------------------------------
(* handle_capture_image and the reports.                                   *)

CaptureEnds ==
    /\ handler.pc = "capture"
    /\ \E s \in Statuses : handler' = Reporting(handler.cmd, s)
    /\ UNCHANGED <<issued, link, inbox, lastId, brokerVars, historyVars>>

(* The thread may go on; nobody waits for it any longer. *)
CaptureTimesOut_NoReturn ==
    /\ handler.pc = "capture"
    /\ reports' = reports \cup {<<handler.cmd, "FAILED">>}
    /\ UNCHANGED <<issued, link, inbox, gatewayVars, brokerVars, handled, ran, unsaid, lost>>
CaptureTimesOut_Never ==
    /\ FALSE
    /\ UNCHANGED vars
CaptureTimesOut ==
    /\ handler.pc = "capture"
    /\ handler' = Reporting(handler.cmd, "FAILED")
    /\ UNCHANGED <<issued, link, inbox, lastId, brokerVars, historyVars>>

(* Only a capture reports SUCCESS, and only then the detector may run. *)
Report_NoReturn ==
    /\ handler.pc = "report"
    /\ reports' = reports \cup {<<handler.cmd, handler.status>>}
    /\ handler' = IF VisionLoaded THEN [handler EXCEPT !.pc = "vision"] ELSE Idle
    /\ UNCHANGED <<issued, link, inbox, lastId, brokerVars, handled, ran, unsaid, lost>>
Report ==
    /\ handler.pc = "report"
    /\ reports' = reports \cup {<<handler.cmd, handler.status>>}
    /\ handler' = IF handler.status = "SUCCESS" /\ VisionLoaded
                  THEN [handler EXCEPT !.pc = "vision"] ELSE Idle
    /\ UNCHANGED <<issued, link, inbox, lastId, brokerVars, handled, ran, unsaid, lost>>

(* The connection is over and the buffer raises: _handle_incoming logs it  *)
(* and reads on.                                                           *)
ReportRaises ==
    /\ handler.pc = "report" /\ link = "closed"
    /\ handler' = Idle
    /\ unsaid' = unsaid \cup {handler.cmd}
    /\ UNCHANGED <<issued, link, inbox, lastId, brokerVars, handled, reports, ran, lost>>

(* With a vision_result or without; an error ends here as well. *)
VisionEnds ==
    /\ handler.pc = "vision"
    /\ handler' = Idle
    /\ UNCHANGED <<issued, link, inbox, lastId, brokerVars, historyVars>>

-------------------------------------------------------------------------------
(* The broker and the ESP32; the end of the process.                       *)

MqttConnects ==
    /\ ~mqtt /\ mqtt' = TRUE
    /\ UNCHANGED <<issued, link, inbox, gatewayVars, out, passed, historyVars>>

(* What was not acknowledged goes out again on the next connection. *)
MqttDisconnects ==
    /\ mqtt /\ mqtt' = FALSE
    /\ passed' = {}
    /\ UNCHANGED <<issued, link, inbox, gatewayVars, out, historyVars>>

EspReceives(c) ==
    /\ mqtt /\ c \in out \ passed
    /\ passed' = passed \cup {c}
    /\ ran' = ran \cup {c}
    /\ UNCHANGED <<issued, link, inbox, gatewayVars, mqtt, out, handled, reports, unsaid, lost>>

Puback(c) ==
    /\ mqtt /\ c \in passed
    /\ out' = out \ {c} /\ passed' = passed \ {c}
    /\ UNCHANGED <<issued, link, inbox, gatewayVars, mqtt, historyVars>>

(* A crash, or a stop and a new start: _last_command_id and the queue of   *)
(* paho are in memory only.                                                *)
Restart ==
    /\ link' = "down" /\ inbox' = << >>
    /\ lastId' = None /\ handler' = Idle
    /\ mqtt' = FALSE /\ out' = {} /\ passed' = {}
    /\ lost' = lost \cup out \cup ({handler.cmd} \ {None})
    /\ UNCHANGED <<issued, handled, reports, ran, unsaid>>

-------------------------------------------------------------------------------
Connection ==
    \/ Connect \/ Issue \/ LinkBreaks \/ LinkClosed
    \/ ReceiveLoopEnds \/ ReceiveLoopFails

Take ==
    \/ TakeCapture \/ TakeUnknown \/ TakeGarbled \/ TakeNameless
    \/ Publish \/ PublishRefused

Handling ==
    \/ CaptureEnds \/ CaptureTimesOut \/ Report \/ ReportRaises \/ VisionEnds

Broker ==
    \/ MqttConnects \/ MqttDisconnects
    \/ \E c \in Cmds : EspReceives(c) \/ Puback(c)

Next == Connection \/ Take \/ Handling \/ Broker \/ Restart

Spec == Init /\ [][Next]_vars

(* The event loop runs what is ready, the timeout of wait_for fires, and a *)
(* report, an inference or an upload comes to an end one way or the other: *)
(* SQLite and the HTTP client have timeouts of their own.  Nothing is      *)
(* assumed of the thread that captures.                                    *)
Fairness ==
    /\ WF_vars(Take) /\ WF_vars(CaptureTimesOut)
    /\ WF_vars(Report \/ ReportRaises) /\ WF_vars(VisionEnds)

FairSpec == Spec /\ Fairness

-------------------------------------------------------------------------------
(* Every command is dispatched at most once, in the order of issue, over   *)
(* any number of connections, replays and restarts: _last_command_id is    *)
(* set before the handler runs, and a connection is not replaced while a   *)
(* handler of the old one is at work.                                      *)
HandledOnceInOrder == Increasing(handled)

(* The gateway never gives two verdicts on one command, such as FAILED for *)
(* a timeout and SUCCESS for the capture that came in late.                *)
OneVerdict ==
    \A c \in Cmds, s, t \in Statuses :
        <<c, s>> \in reports /\ <<c, t>> \in reports => s = t

(* Over all connections and restarts the gateway keeps one ledger of       *)
(* commands: a verdict is on the command dispatched last, is given before  *)
(* the next one is dispatched or never, and is never revised.              *)
OfKind(kind) == {c \in Cmds : Kind[c] = kind}
Verdicts(c)  == {s \in Statuses : <<c, s>> \in reports}

Ledger == INSTANCE CommandLedger WITH
    Issuable <- Cmds, ForEsp <- OfKind("esp32"), Local <- OfKind("capture"),
    entered <- handled, verdict <- [c \in Cmds |-> Verdicts(c)], executed <- ran

ImplementsLedger == Ledger!Spec

(* A dispatched command that is neither answered, nor with the ESP32 or on *)
(* the way there, nor at work, is one of these and no other: its process   *)
(* ended, its report met a closed connection and a buffer that raised, it  *)
(* had no id, or dispatch could not read it.                               *)
Dispatched(c) == \E i \in DOMAIN handled : handled[i] = c
Forgotten ==
    {c \in Cmds \ (out \cup ran \cup {handler.cmd}) : Dispatched(c) /\ Verdicts(c) = {}}

NoneForgotten ==
    Forgotten \subseteq lost \cup unsaid \cup OfKind("noid") \cup OfKind("garbled")

(* A command that has reached the Pi is handled or dropped with its        *)
(* connection; none waits for ever behind a camera that does not answer.   *)
InboxServed ==
    \A c \in Cmds : c \in Range(inbox) ~> c \notin Range(inbox)

(* publish_command: "Returns True on successful enqueue", so a command it  *)
(* refused was not enqueued and, reported FAILED, is not carried out.      *)
RefusedIsNotRun ==
    \A c \in Cmds : Kind[c] = "esp32" /\ <<c, "FAILED">> \in reports => c \notin ran
===============================================================================
