------------------------------- MODULE WsClient -------------------------------
(***************************************************************************)
(* The uplink of the gateway: WebSocketClient (ws_client.py), the offline  *)
(* buffer it fills and flushes, the coroutines that call send_or_buffer,   *)
(* the stop sequence of the gateway, and a server at the far end of a TCP  *)
(* connection that may go silent.                                          *)
(*                                                                         *)
(* One action is what the event loop, a worker thread or the network does  *)
(* between two suspension points.                                          *)
(***************************************************************************)
EXTENDS OfflineBuffer

CONSTANTS
    Sync,           \* the sync_request that opens every connection
    BatchSize,      \* BUFFER_FLUSH_BATCH_SIZE
    BackoffMin,     \* WS_RECONNECT_MIN_DELAY_S
    BackoffMax,     \* WS_RECONNECT_MAX_DELAY_S
    BackoffFactor,  \* WS_RECONNECT_BACKOFF_FACTOR
    MaxTime,        \* bound: the largest reading of the wall clock
    MaxConns,       \* bound: how many connections are opened
    MaxCrashes      \* bound: how often the process dies

ASSUME BatchAssumption   == BatchSize \in Nat \ {0}
ASSUME BackoffAssumption ==
    /\ BackoffMin \in Nat \ {0} /\ BackoffMax \in Nat /\ BackoffFactor \in Nat \ {0}
    /\ BackoffMin <= BackoffMax
ASSUME BoundsAssumption  == MaxTime \in Nat /\ MaxConns \in Nat /\ MaxCrashes \in Nat
ASSUME SyncAssumption    == Sync \notin Msgs

VARIABLES
    \* the Pi: what the program keeps
    buf,        \* the table; the only thing that survives a crash
    now,        \* the wall clock of the Pi
    client,     \* where WebSocketClient.run is
    outcome,    \* how the connection being torn down ended
    stopping,   \* _stop_event
    backoff,    \* the local of run
    flush,      \* the flush task: its program counter and its batch
    orphans,    \* mark_sent threads whose flush task was cancelled
    call,       \* one send_or_buffer call per message
    \* the network and the server
    link,       \* the TCP connection
    log,        \* what was written to the current connection, in order
    got,        \* how many elements of log the server has read
    conns,      \* connections opened so far
    crashes,    \* deaths of the process so far
    \* what the properties observe
    wrote,      \* messages ever written to some connection
    delivered,  \* messages the server has read
    expired,    \* messages a cleanup deleted while they were pending
    backlog     \* what was pending when the current connection opened

clientVars  == <<client, outcome, stopping, backoff>>
linkVars    == <<link, log, got>>
boundVars   == <<conns, crashes>>
historyVars == <<wrote, delivered, expired, backlog>>
vars == <<buf, now, clientVars, flush, orphans, call, linkVars, boundVars, historyVars>>

FlushStates == {"none", "read", "send", "drain", "mark", "done", "dead"}
NoFlush     == [pc |-> "none", batch |-> << >>]

(* "down": no connection.  "half": established for the Pi, dead in fact.   *)
(* "closed": the connection is over and the library knows it.              *)
LinkStates == {"down", "up", "half", "closed"}

(* The call is suspended in ws.send ("drain") or in enqueue ("enqueue"). *)
CallStates == {"idle", "drain", "enqueue", "done", "failed"}

TypeOK ==
    /\ buf \in [Msgs -> Rows]
    /\ now \in 0..MaxTime
    /\ client \in {"connect", "serve", "closing", "delay", "stopped"}
    /\ outcome \in {"none", "returned", "raised", "cancelled"}
    /\ stopping \in BOOLEAN
    /\ backoff \in BackoffMin..BackoffMax
    /\ flush \in [pc : FlushStates, batch : Seq(Msgs)]
    /\ orphans \subseteq Msgs
    /\ call \in [Msgs -> CallStates]
    /\ link \in LinkStates
    /\ log \in Seq(Msgs \cup {Sync})
    /\ got \in 0..Len(log)
    /\ conns \in 0..MaxConns
    /\ crashes \in 0..MaxCrashes
    /\ wrote \subseteq Msgs
    /\ delivered \subseteq Msgs
    /\ expired \subseteq Msgs
    /\ backlog \subseteq Msgs

Init ==
    /\ buf = EmptyTable
    /\ now = 0
    /\ client = "connect"
    /\ outcome = "none"
    /\ stopping = FALSE
    /\ backoff = BackoffMin
    /\ flush = NoFlush
    /\ orphans = {}
    /\ call = [m \in Msgs |-> "idle"]
    /\ link = "down"
    /\ log = << >>
    /\ got = 0
    /\ conns = 0
    /\ crashes = 0
    /\ wrote = {} /\ delivered = {} /\ expired = {} /\ backlog = {}

-------------------------------------------------------------------------------
(* _ws is set while a connection is served and while its flush task is     *)
(* being cancelled; is_connected reads the same thing.                     *)
Connected   == client \in {"serve", "closing"}

(* ws.send accepts a frame: nothing has told the library of a loss. *)
LinkUsable  == link \in {"up", "half"}
FlushActive == flush.pc \in {"read", "send", "drain", "mark"}
NextMsg     == Head(flush.batch)

(* A finished mark leaves the rest of the batch, or asks for the next one. *)
AfterMark_OneBatch(batch) ==
    [pc |-> IF Tail(batch) = << >> THEN "done" ELSE "send", batch |-> Tail(batch)]
AfterMark(batch) ==
    [pc |-> IF Tail(batch) = << >> THEN "read" ELSE "send", batch |-> Tail(batch)]

(* Callers whose ws.send is suspended get ConnectionClosed when it closes, *)
(* so send returns False and send_or_buffer goes on to the buffer.         *)
DrainRaises == [m \in Msgs |-> IF call[m] = "drain" THEN "enqueue" ELSE call[m]]

-------------------------------------------------------------------------------
(* send_or_buffer, one call per message.                                   *)

(* A frame is written at once; the call waits only if the socket is full. *)
SendDirect(m) ==
    /\ call[m] = "idle" /\ Connected /\ LinkUsable
    /\ log' = Append(log, m)
    /\ wrote' = wrote \cup {m}
    /\ \E to \in {"done", "drain"} : call' = [call EXCEPT ![m] = to]
    /\ UNCHANGED <<buf, now, clientVars, flush, orphans, link, got, boundVars,
                   delivered, expired, backlog>>

(* _ws is None, or ws.send raises ConnectionClosed. *)
SendRefused(m) ==
    /\ call[m] = "idle" /\ (~Connected \/ link = "closed")
    /\ call' = [call EXCEPT ![m] = "enqueue"]
    /\ UNCHANGED <<buf, now, clientVars, flush, orphans, linkVars, boundVars, historyVars>>

Drained(m) ==
    /\ call[m] = "drain" /\ LinkUsable
    /\ call' = [call EXCEPT ![m] = "done"]
    /\ UNCHANGED <<buf, now, clientVars, flush, orphans, linkVars, boundVars, historyVars>>

(* The INSERT commits; nothing checks whether a connection came up. *)
Enqueue(m) ==
    /\ call[m] = "enqueue"
    /\ buf' = Insert(buf, m, now)
    /\ call' = [call EXCEPT ![m] = "done"]
    /\ UNCHANGED <<now, clientVars, flush, orphans, linkVars, boundVars, historyVars>>

(* SQLite raises (locked for too long, disk full): the caller sees it. *)
EnqueueFails(m) ==
    /\ call[m] = "enqueue"
    /\ call' = [call EXCEPT ![m] = "failed"]
    /\ UNCHANGED <<buf, now, clientVars, flush, orphans, linkVars, boundVars, historyVars>>

(* The gateway cancels the tasks that report; an INSERT already handed to  *)
(* a worker thread still commits.                                          *)
CallCancelled(m) ==
    /\ stopping /\ call[m] \in {"drain", "enqueue"}
    /\ call' = [call EXCEPT ![m] = "failed"]
    /\ buf' \in IF call[m] = "enqueue" THEN {buf, Insert(buf, m, now)} ELSE {buf}
    /\ UNCHANGED <<now, clientVars, flush, orphans, linkVars, boundVars, historyVars>>

-------------------------------------------------------------------------------
(* run and _connect_and_serve.                                             *)

(* The handshake is done: _ws is set, the sync_request goes out and the    *)
(* flush task is created, with no suspension in between.                   *)
Connect ==
    /\ client = "connect" /\ conns < MaxConns
    /\ client' = "serve"
    /\ link' = "up"
    /\ log' = <<Sync>>
    /\ got' = 0
    /\ flush' = [pc |-> "read", batch |-> << >>]
    /\ conns' = conns + 1
    /\ backlog' = Pending(buf)
    /\ UNCHANGED <<buf, now, outcome, stopping, backoff, orphans, call, crashes,
                   wrote, delivered, expired>>

ConnectFails ==
    /\ client = "connect"
    /\ client' = "delay"
    /\ UNCHANGED <<buf, now, outcome, stopping, backoff, flush, orphans, call,
                   linkVars, boundVars, historyVars>>

NextBackoff_Uncapped(b) == b * BackoffFactor
NextBackoff(b) ==
    IF b * BackoffFactor < BackoffMax THEN b * BackoffFactor ELSE BackoffMax

(* The end of the async with: the connection is gone, and run decides what *)
(* comes next from how it ended.  Only a normal return resets the backoff. *)
DropConnection(why) ==
    /\ backoff' = IF why = "returned" THEN BackoffMin ELSE backoff
    /\ outcome' = "none"
    /\ link' = "down"
    /\ log' = << >> /\ got' = 0 /\ backlog' = {}
    /\ call' = DrainRaises

Disconnect_IgnoresStop(why) ==
    /\ client' = IF why = "cancelled" THEN "stopped" ELSE "delay"
    /\ DropConnection(why)
Disconnect_GivesUp(why) ==
    /\ client' = IF why # "returned" \/ stopping' THEN "stopped" ELSE "delay"
    /\ DropConnection(why)
Disconnect(why) ==
    /\ client' = IF why = "cancelled" \/ stopping' THEN "stopped" ELSE "delay"
    /\ DropConnection(why)

(* The finally block: a flush task that still runs is cancelled and        *)
(* awaited; a mark_sent it had handed to a thread is not called back.      *)
LeaveServing(why) ==
    /\ client = "serve"
    /\ flush' = NoFlush
    /\ IF FlushActive
       THEN /\ client' = "closing"
            /\ outcome' = why
            /\ orphans' \in {orphans}
                  \cup (IF flush.pc = "mark" THEN {orphans \cup {NextMsg}} ELSE {})
            /\ UNCHANGED <<backoff, linkVars, call, backlog>>
       ELSE Disconnect(why) /\ UNCHANGED orphans
    /\ UNCHANGED <<buf, now, boundVars, wrote, delivered, expired>>

(* The iteration over the connection ends: after a clean close it returns, *)
(* after any other it raises ConnectionClosed.                             *)
ReceiveLoopEnds ==
    /\ link = "closed" /\ UNCHANGED stopping
    /\ \E why \in {"returned", "raised"} : LeaveServing(why)

(* Handling a frame raises although the connection is fine. *)
ReceiveLoopFails ==
    /\ LinkUsable /\ UNCHANGED stopping
    /\ LeaveServing("raised")

FinishClosing ==
    /\ client = "closing"
    /\ UNCHANGED stopping
    /\ Disconnect(outcome)
    /\ UNCHANGED <<buf, now, flush, orphans, boundVars, wrote, delivered, expired>>

DelayExpires ==
    /\ client = "delay"
    /\ client' = "connect"
    /\ backoff' = NextBackoff(backoff)
    /\ UNCHANGED <<buf, now, outcome, stopping, flush, orphans, call, linkVars,
                   boundVars, historyVars>>

(* SolarGateway.run sets the stop event and cancels the client's task.     *)
(* While the client awaits its cancelled flush task that second            *)
(* cancellation is swallowed, and only the event is left to stop it.       *)
Stop ==
    /\ ~stopping /\ stopping' = TRUE
    /\ \/ /\ client \in {"connect", "delay"}
          /\ client' = "stopped"
          /\ UNCHANGED <<buf, now, outcome, backoff, flush, orphans, call,
                         linkVars, boundVars, historyVars>>
       \/ LeaveServing("cancelled")
       \/ /\ client = "closing"
          /\ UNCHANGED <<buf, now, client, outcome, backoff, flush, orphans, call,
                         linkVars, boundVars, historyVars>>

-------------------------------------------------------------------------------
(* _flush_buffer.                                                          *)

FlushSelect ==
    /\ flush.pc = "read"
    /\ \E batch \in Batches(buf, BatchSize) :
          flush' = [pc |-> IF batch = << >> THEN "done" ELSE "send", batch |-> batch]
    /\ UNCHANGED <<buf, now, clientVars, orphans, call, linkVars, boundVars, historyVars>>

FlushSend ==
    /\ flush.pc = "send" /\ LinkUsable
    /\ log' = Append(log, NextMsg)
    /\ wrote' = wrote \cup {NextMsg}
    /\ flush' = [flush EXCEPT !.pc = "drain"]
    /\ UNCHANGED <<buf, now, clientVars, orphans, call, link, got, boundVars,
                   delivered, expired, backlog>>

FlushDrained_MarkNotAwaited ==
    /\ flush.pc = "drain" /\ LinkUsable
    /\ flush' = AfterMark(flush.batch)
    /\ orphans' = orphans \cup {NextMsg}
    /\ UNCHANGED <<buf, now, clientVars, call, linkVars, boundVars, historyVars>>
FlushDrained ==
    /\ flush.pc = "drain" /\ LinkUsable
    /\ flush' = [flush EXCEPT !.pc = "mark"]
    /\ UNCHANGED <<buf, now, clientVars, orphans, call, linkVars, boundVars, historyVars>>

(* ws.send raises ConnectionClosed: the flush is over until a reconnect. *)
FlushInterrupted ==
    /\ flush.pc \in {"send", "drain"} /\ link = "closed"
    /\ flush' = [pc |-> "dead", batch |-> << >>]
    /\ UNCHANGED <<buf, now, clientVars, orphans, call, linkVars, boundVars, historyVars>>

FlushMark ==
    /\ flush.pc = "mark"
    /\ buf' = MarkSent(buf, NextMsg, now)
    /\ flush' = AfterMark(flush.batch)
    /\ UNCHANGED <<now, clientVars, orphans, call, linkVars, boundVars, historyVars>>

(* SQLite raises in get_pending or mark_sent; nothing restarts the task. *)
FlushDbError ==
    /\ flush.pc \in {"read", "mark"}
    /\ flush' = [pc |-> "dead", batch |-> << >>]
    /\ UNCHANGED <<buf, now, clientVars, orphans, call, linkVars, boundVars, historyVars>>

OrphanMark(m) ==
    /\ m \in orphans
    /\ orphans' = orphans \ {m}
    /\ buf' = MarkSent(buf, m, now)
    /\ UNCHANGED <<now, clientVars, flush, call, linkVars, boundVars, historyVars>>

-------------------------------------------------------------------------------
(* The hourly cleanup, the clock, the network, the process.                *)

CleanupRun ==
    /\ buf' = Cleanup(buf, now)
    /\ expired' = expired \cup {m \in Pending(buf) : Stale(buf[m], now)}
    /\ UNCHANGED <<now, clientVars, flush, orphans, call, linkVars, boundVars,
                   wrote, delivered, backlog>>

(* The Pi has no battery-backed clock: time is also set, in either         *)
(* direction, when NTP answers.                                            *)
SetClock(t) ==
    /\ now' = t
    /\ UNCHANGED <<buf, clientVars, flush, orphans, call, linkVars, boundVars, historyVars>>

ServerReceives ==
    /\ link = "up" /\ got < Len(log)
    /\ got' = got + 1
    /\ delivered' = delivered \cup ({log[got + 1]} \ {Sync})
    /\ UNCHANGED <<buf, now, clientVars, flush, orphans, call, link, log, boundVars,
                   wrote, expired, backlog>>

(* The peer vanishes without a word: frames are still accepted, and lost. *)
LinkBreaks ==
    /\ link = "up"
    /\ link' = "half"
    /\ UNCHANGED <<buf, now, clientVars, flush, orphans, call, log, got, boundVars, historyVars>>

(* A close frame, a reset, or a pong that did not come in time. *)
LinkClosed ==
    /\ LinkUsable
    /\ link' = "closed"
    /\ call' = DrainRaises
    /\ UNCHANGED <<buf, now, clientVars, flush, orphans, log, got, boundVars, historyVars>>

(* The process dies, or ends after a stop, and systemd starts it again:    *)
(* all but the table is lost.                                              *)
Crash ==
    /\ crashes < MaxCrashes
    /\ crashes' = crashes + 1
    /\ client' = "connect" /\ outcome' = "none" /\ stopping' = FALSE
    /\ backoff' = BackoffMin
    /\ flush' = NoFlush
    /\ orphans' = {}
    /\ call' = [m \in Msgs |-> IF call[m] \in {"drain", "enqueue"} THEN "failed" ELSE call[m]]
    /\ link' = "down" /\ log' = << >> /\ got' = 0 /\ backlog' = {}
    /\ UNCHANGED <<buf, now, conns, wrote, delivered, expired>>

-------------------------------------------------------------------------------
Caller(m) ==
    \/ SendDirect(m) \/ SendRefused(m) \/ Drained(m)
    \/ Enqueue(m) \/ EnqueueFails(m) \/ CallCancelled(m)

Client ==
    \/ Connect \/ ConnectFails \/ ReceiveLoopEnds \/ ReceiveLoopFails
    \/ FinishClosing \/ DelayExpires \/ Stop

Flush ==
    \/ FlushSelect \/ FlushSend \/ FlushDrained \/ FlushInterrupted
    \/ FlushMark \/ FlushDbError

Environment ==
    \/ CleanupRun \/ \E t \in 0..MaxTime : SetClock(t)
    \/ ServerReceives \/ LinkBreaks \/ LinkClosed \/ Crash

Next ==
    \/ \E m \in Msgs : Caller(m) \/ OrphanMark(m)
    \/ Client
    \/ Flush
    \/ Environment

Spec == Init /\ [][Next]_vars

-------------------------------------------------------------------------------
(* A flush that waits for the socket goes on, or the connection is given   *)
(* up, by the keepalive or by TCP when nothing is acknowledged any more.   *)
DrainResolves == flush.pc = "drain" /\ (FlushDrained \/ LinkClosed)
PingTimeout   == link = "half" /\ LinkClosed

(* The event loop resumes whatever is ready, worker threads end, timers    *)
(* fire, a dead peer is noticed.  Nothing is assumed of the callers, the   *)
(* server, the clock, a connection attempt, a stop or a crash.             *)
Fairness ==
    /\ WF_vars(FlushSelect) /\ WF_vars(FlushSend) /\ WF_vars(DrainResolves)
    /\ WF_vars(FlushInterrupted) /\ WF_vars(FlushMark)
    /\ WF_vars(ReceiveLoopEnds) /\ WF_vars(FinishClosing) /\ WF_vars(DelayExpires)
    /\ WF_vars(PingTimeout)

FairSpec == Spec /\ Fairness

-------------------------------------------------------------------------------
(* A row is marked as sent only for a message that was written to a        *)
(* connection, whatever cancels the flush or kills the process in between: *)
(* _flush_buffer marks after ws.send has returned.                         *)
SentRowWasWritten == \A m \in Msgs : buf[m].st = "sent" => m \in wrote

(* When send_or_buffer has returned, the message was written, or is in the *)
(* table, or was there until it grew too old: no interleaving of a loss, a *)
(* reconnect, a cleanup and a crash drops it.                              *)
NothingDropped ==
    \A m \in Msgs :
        call[m] = "done" => m \in wrote \/ buf[m].st # "absent" \/ m \in expired

(* On one connection every message is written at most once: neither two    *)
(* flush tasks, nor a row read again before its mark_sent, nor a direct    *)
(* send of a message that is also buffered repeats it.                     *)
WrittenOncePerConnection == IsInjective(log)

(* Of what was pending when the connection opened, the flush writes the    *)
(* oldest first, across its batches: get_pending orders by created_at.     *)
BacklogOldestFirst ==
    flush.pc = "send" /\ NextMsg \in Pending(buf) =>
        \A m \in backlog \cap Pending(buf) : buf[NextMsg].at <= buf[m].at

(* Once the gateway is stopping, the client neither retries nor serves a   *)
(* connection, even when its cancellation was swallowed by the cleanup.    *)
StopIsFinal == stopping => client \in {"closing", "stopped"}

(* The uplink implements the abstract store: where each message is follows *)
(* from the table, the calls and what was written.                         *)
PhaseOfCall(m) ==
    IF call[m] = "idle" THEN "new" ELSE IF call[m] = "enqueue" THEN "held" ELSE "lost"
phaseOf == [m \in Msgs |->
    IF m \in wrote THEN "sent"
    ELSE IF m \in Pending(buf) THEN "stored"
    ELSE IF m \in expired THEN "expired" ELSE PhaseOfCall(m)]
sinceOf == [m \in Msgs |-> IF phaseOf[m] = "stored" THEN buf[m].at ELSE 0]

Store == INSTANCE StoreAndForward WITH phase <- phaseOf, since <- sinceOf
ImplementsStore == Store!Spec

-------------------------------------------------------------------------------
(* A flush that is reading the table gets every message that is pending    *)
(* then out of it, in as many batches as it takes, unless it is cut short. *)
FlushDrains ==
    \A m \in Msgs :
        flush.pc = "read" /\ m \in Pending(buf)
            ~> m \notin Pending(buf) \/ flush.pc \in {"none", "dead"}

(* A lost connection leads to a new attempt, unless the gateway stops.     *)
LossLeadsToRetry == link = "closed" ~> client = "connect" \/ stopping

(* A stop ends the client's task, whatever it was waiting for.             *)
StopTerminates == stopping ~> client = "stopped" \/ ~stopping

-------------------------------------------------------------------------------
(* README: buffered messages are flushed "once it is back online".  They   *)
(* are when the connection opens; the question is whether a message that   *)
(* is pending while a connection is up, its flush in good health, ever     *)
(* goes out on it.                                                         *)
PendingGoesOutOnline ==
    \A m \in Msgs :
        m \in Pending(buf) /\ link = "up"
            ~> m \in wrote \/ m \notin Pending(buf) \/ link # "up" \/ flush.pc = "dead"
===============================================================================
