------------------------------ MODULE MqttIngress ------------------------------
(***************************************************************************)
(* The inbound side of mqtt_bridge.py and the forwarders of app.py: the    *)
(* network thread of paho takes an inflight slot for each message and      *)
(* hands it to the event loop, where a coroutine validates it, passes it   *)
(* to send_or_buffer and gives the slot back.                              *)
(*                                                                         *)
(* A call is one invocation of _on_message; a message the broker passes on *)
(* twice is two calls.  The bridge subscribes to its three topics only, and *)
(* the event loop outlives the thread, so the branches for an unknown topic *)
(* and for a loop that does not run are never taken.  A payload that json  *)
(* refuses with anything but JSONDecodeError is left out.                  *)
(***************************************************************************)
EXTENDS Integers, FiniteSets

CONSTANTS
    Calls,    \* the invocations of _on_message
    Content,  \* what each of them brings
    Limit     \* MQTT_INFLIGHT_LIMIT

(* "garbled": no JSON object.  "refused": telemetry that validation or an  *)
(* ACK that the translation turns down.                                    *)
Contents == {"good", "refused", "garbled"}

ASSUME IngressAssumption ==
    /\ IsFiniteSet(Calls)
    /\ Content \in [Calls -> Contents]
    /\ Limit \in Nat

VARIABLES
    at,        \* how far each call has come
    inflight,  \* _inflight_count
    stopped    \* MQTTBridge.stop has been called

vars == <<at, inflight, stopped>>

(* "thread": the network thread has taken the slot.  "task": the coroutine *)
(* is scheduled.  "send": it awaits send_or_buffer.  The others are the    *)
(* ways a call can end.                                                    *)
Working == {"thread", "task", "send"}
Ended   == {"dropped", "rejected", "relayed", "failed", "cancelled", "unbegun"}

TypeOK ==
    /\ at \in [Calls -> {"new"} \cup Working \cup Ended]
    /\ inflight \in 0..Limit
    /\ stopped \in BOOLEAN

Init ==
    /\ at = [c \in Calls |-> "new"]
    /\ inflight = 0
    /\ stopped = FALSE

Busy == {c \in Calls : at[c] \in Working}

(* There is one network thread: it is in one call at a time. *)
ThreadFree == \A c \in Calls : at[c] # "thread"

Move(c, to) == at' = [at EXCEPT ![c] = to]

(* Both under the lock; the guard keeps the counter from going negative. *)
Release == inflight' = IF inflight > 0 THEN inflight - 1 ELSE inflight

-------------------------------------------------------------------------------
(* The network thread.  stop joins it, so it enters no call afterwards, but *)
(* finishes the one it is in.                                              *)

TakeSlot_OneMore(c) ==
    /\ at[c] = "new" /\ ThreadFree /\ ~stopped /\ inflight <= Limit
    /\ Move(c, "thread")
    /\ inflight' = inflight + 1
    /\ UNCHANGED stopped
TakeSlot(c) ==
    /\ at[c] = "new" /\ ThreadFree /\ ~stopped /\ inflight < Limit
    /\ Move(c, "thread")
    /\ inflight' = inflight + 1
    /\ UNCHANGED stopped

Drop(c) ==
    /\ at[c] = "new" /\ ThreadFree /\ ~stopped /\ inflight >= Limit
    /\ Move(c, "dropped")
    /\ UNCHANGED <<inflight, stopped>>

RejectGarbled_KeepsSlot(c) ==
    /\ at[c] = "thread" /\ Content[c] = "garbled"
    /\ Move(c, "rejected")
    /\ UNCHANGED <<inflight, stopped>>
RejectGarbled(c) ==
    /\ at[c] = "thread" /\ Content[c] = "garbled"
    /\ Move(c, "rejected") /\ Release
    /\ UNCHANGED stopped

Schedule(c) ==
    /\ at[c] = "thread" /\ Content[c] # "garbled"
    /\ Move(c, "task")
    /\ UNCHANGED <<inflight, stopped>>

-------------------------------------------------------------------------------
(* The event loop: _wrap_handler around _forward_telemetry, _forward_ack   *)
(* and _forward_event.                                                     *)

RejectInvalid(c) ==
    /\ at[c] = "task" /\ Content[c] = "refused"
    /\ Move(c, "rejected") /\ Release
    /\ UNCHANGED stopped

StartSend(c) ==
    /\ at[c] = "task" /\ Content[c] = "good"
    /\ Move(c, "send")
    /\ UNCHANGED <<inflight, stopped>>

Relay(c) ==
    /\ at[c] = "send"
    /\ Move(c, "relayed") /\ Release
    /\ UNCHANGED stopped

(* The buffer raises, and the finally block runs all the same. *)
SendFails_SkipsFinally(c) ==
    /\ at[c] = "send"
    /\ Move(c, "failed")
    /\ UNCHANGED <<inflight, stopped>>
SendFails(c) ==
    /\ at[c] = "send"
    /\ Move(c, "failed") /\ Release
    /\ UNCHANGED stopped

(* loop_stop joins the network thread while the event loop waits.           *)
Stop ==
    /\ ~stopped /\ ThreadFree
    /\ stopped' = TRUE
    /\ UNCHANGED <<at, inflight>>

(* The end of asyncio.run cancels what is left.  A coroutine that has not  *)
(* begun never enters its try block, so its slot is not given back; nobody *)
(* takes one any more.                                                     *)
CancelBegun(c) ==
    /\ stopped /\ at[c] = "send"
    /\ Move(c, "cancelled") /\ Release
    /\ UNCHANGED stopped

CancelUnbegun(c) ==
    /\ stopped /\ at[c] = "task"
    /\ Move(c, "unbegun")
    /\ UNCHANGED <<inflight, stopped>>

-------------------------------------------------------------------------------
Thread(c) == RejectGarbled(c) \/ Schedule(c)
Begin(c)  == RejectInvalid(c) \/ StartSend(c)
Finish(c) == Relay(c) \/ SendFails(c)
Cancel(c) == CancelBegun(c) \/ CancelUnbegun(c)

Next ==
    \/ \E c \in Calls :
          TakeSlot(c) \/ Drop(c) \/ Thread(c) \/ Begin(c) \/ Finish(c) \/ Cancel(c)
    \/ Stop

Spec == Init /\ [][Next]_vars

(* The network thread comes to the end of _on_message, the event loop runs *)
(* what is scheduled, and send_or_buffer returns: a full socket is drained *)
(* or given up (DrainResolves of WsClient), the thread of an insert ends.  *)
(* No message has to come, and nobody has to stop the gateway.             *)
FairSpec ==
    /\ Spec
    /\ \A c \in Calls : WF_vars(Thread(c)) /\ WF_vars(Begin(c)) /\ WF_vars(Finish(c))

-------------------------------------------------------------------------------
(* The slots in use: of the calls at work, and of those whose coroutine was *)
(* cancelled before it began.                                              *)
Holding == Busy \cup {c \in Calls : at[c] = "unbegun"}

(* The counter of _on_message, which two threads change on seven paths, is *)
(* exactly the number of slots in use: none leaks, none is given back twice.*)
CountExact == inflight = Cardinality(Holding)

UnbegunOnlyAfterStop == \A c \in Calls : at[c] = "unbegun" => stopped

(* The inductive invariant. *)
IInv == TypeOK /\ CountExact /\ UnbegunOnlyAfterStop

(* The promise of the module's docstring, "a backpressure counter to bound *)
(* memory": at most Limit messages are held between paho and send_or_buffer. *)
Backpressure == Cardinality(Busy) <= Limit

(* A message is dropped only while Limit others are really at work, never  *)
(* because slots of earlier ones were lost.                                *)
DroppedOnlyWhenFull ==
    [][\A c \in Calls : at[c] = "new" /\ at'[c] = "dropped" => Cardinality(Busy) >= Limit]_vars

(* Those that came to an end, and those that were never let in.            *)
Left    == {c \in Calls : at[c] \in Ended \ {"dropped"}}
Dropped == {c \in Calls : at[c] = "dropped"}

Gate == INSTANCE BoundedGate WITH
    Messages <- Calls, Room <- Limit,
    inside <- Busy, gone <- Left, turned <- Dropped, shut <- stopped

(* The counter, the lock and the finally block together are the gate that  *)
(* counts who is inside: as long as the bridge runs no slot is lost to a   *)
(* message that ended, so that none is let in or turned away wrongly.      *)
ImplementsGate == Gate!Spec

(* Once the traffic ceases every slot becomes free again, unless the       *)
(* gateway stops first.                                                    *)
SlotsComeBack == [](~stopped => <>(stopped \/ inflight = 0))
===============================================================================
