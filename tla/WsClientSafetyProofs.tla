------------------------- MODULE WsClientSafetyProofs -------------------------
(***************************************************************************)
(* IInv is an invariant of WsClient: every step preserves each of its      *)
(* conjuncts.  The safety properties follow.                               *)
(***************************************************************************)
EXTENDS WsClientProofs

(* The control states and the link, without the data. *)
LEMMA ControlStep ==
    ASSUME IInv, [Next]_vars
    PROVE  StopIsFinal' /\ LinkFollowsClient'
  <1> USE DEF IInv, StopIsFinal, LinkFollowsClient, Connected, LinkUsable,
              clientVars, linkVars, boundVars, historyVars
  <1>1. ASSUME NEW m \in Msgs, Caller(m) \/ OrphanMark(m)
        PROVE  StopIsFinal' /\ LinkFollowsClient'
    BY <1>1 DEF Caller, SendDirect, SendRefused, Drained, Enqueue, EnqueueFails,
                CallCancelled, OrphanMark
  <1>2. CASE Flush
    BY <1>2 DEF Flush, FlushSelect, FlushSend, FlushDrained, FlushInterrupted,
                FlushMark, FlushDbError
  <1>3. CASE Environment
    BY <1>3 DEF Environment, CleanupRun, SetClock, ServerReceives, LinkBreaks,
                LinkClosed, Crash, TypeOK
  <1>4. ASSUME NEW why, LeaveServing(why), why = "cancelled" \/ UNCHANGED stopping
        PROVE  StopIsFinal' /\ LinkFollowsClient'
    BY <1>4 DEF LeaveServing, Disconnect, DropConnection
  <1>5. CASE Client
    <2>1. CASE Connect \/ ConnectFails \/ DelayExpires
      BY <2>1 DEF Connect, ConnectFails, DelayExpires
    <2>2. CASE ReceiveLoopEnds \/ ReceiveLoopFails
      BY <2>2, <1>4 DEF ReceiveLoopEnds, ReceiveLoopFails
    <2>3. CASE FinishClosing
      BY <2>3 DEF FinishClosing, Disconnect, DropConnection
    <2>4. CASE Stop
      BY <2>4, <1>4 DEF Stop, TypeOK
    <2>5. QED
      BY <1>5, <2>1, <2>2, <2>3, <2>4 DEF Client
  <1>6. CASE UNCHANGED vars
    BY <1>6 DEF vars
  <1>7. QED
    BY <1>1, <1>2, <1>3, <1>5, <1>6 DEF Next

(* One flush task, and only inside the connection it was created for. *)
LEMMA FlushStep ==
    ASSUME IInv, [Next]_vars
    PROVE  FlushOnlyWhileServing'
  <1> USE DEF IInv, FlushOnlyWhileServing, FlushActive,
              clientVars, linkVars, boundVars, historyVars
  <1>1. ASSUME NEW m \in Msgs, Caller(m) \/ OrphanMark(m)
        PROVE  FlushOnlyWhileServing'
    BY <1>1 DEF Caller, SendDirect, SendRefused, Drained, Enqueue, EnqueueFails,
                CallCancelled, OrphanMark
  <1>2. CASE Flush
    <2>1. CASE FlushSelect
      BY <2>1 DEF FlushSelect
    <2>2. CASE FlushSend \/ FlushDrained
      <3>1. flush \in [pc : FlushStates, batch : Seq(Msgs)]
        BY DEF TypeOK
      <3>2. QED
        BY <2>2, <3>1 DEF FlushSend, FlushDrained, FlushStates
    <2>3. CASE FlushInterrupted \/ FlushDbError
      BY <2>3 DEF FlushInterrupted, FlushDbError
    <2>4. CASE FlushMark
      BY <2>4 DEF FlushMark, AfterMark
    <2>5. QED
      BY <1>2, <2>1, <2>2, <2>3, <2>4 DEF Flush
  <1>3. CASE Environment
    BY <1>3 DEF Environment, CleanupRun, SetClock, ServerReceives, LinkBreaks,
                LinkClosed, Crash, NoFlush
  <1>4. ASSUME NEW why, LeaveServing(why)
        PROVE  FlushOnlyWhileServing'
    BY <1>4 DEF LeaveServing, NoFlush
  <1>5. CASE Client
    <2>1. CASE Connect \/ ConnectFails \/ DelayExpires
      BY <2>1 DEF Connect, ConnectFails, DelayExpires
    <2>2. CASE ReceiveLoopEnds \/ ReceiveLoopFails
      BY <2>2, <1>4 DEF ReceiveLoopEnds, ReceiveLoopFails
    <2>3. CASE FinishClosing
      BY <2>3 DEF FinishClosing, Disconnect, DropConnection
    <2>4. CASE Stop
      BY <2>4, <1>4 DEF Stop
    <2>5. QED
      BY <1>5, <2>1, <2>2, <2>3, <2>4 DEF Client
  <1>6. CASE UNCHANGED vars
    BY <1>6 DEF vars
  <1>7. QED
    BY <1>1, <1>2, <1>3, <1>5, <1>6 DEF Next

(* A refused or a suspended send_or_buffer, and what was written. *)
LEMMA CallStep ==
    ASSUME IInv, [Next]_vars
    PROVE  IdleIsUnwritten' /\ DrainingWasWritten'
  <1> USE DEF IInv, IdleIsUnwritten, DrainingWasWritten, LinkUsable, Connected,
              clientVars, linkVars, boundVars, historyVars
  <1>t. call \in [Msgs -> CallStates]
    BY DEF TypeOK
  <1>1. ASSUME NEW m \in Msgs, Caller(m) \/ OrphanMark(m)
        PROVE  IdleIsUnwritten' /\ DrainingWasWritten'
    <2>1. CASE SendDirect(m)
      BY <1>t, <2>1 DEF SendDirect
    <2>2. CASE SendRefused(m) \/ Drained(m) \/ EnqueueFails(m)
      BY <1>t, <2>2 DEF SendRefused, Drained, EnqueueFails
    <2>3. CASE Enqueue(m) \/ CallCancelled(m)
      BY <1>t, <2>3 DEF Enqueue, CallCancelled
    <2>4. CASE OrphanMark(m)
      BY <2>4 DEF OrphanMark
    <2>5. QED
      BY <1>1, <2>1, <2>2, <2>3, <2>4 DEF Caller
  <1>2. CASE Flush
    <2>1. CASE FlushSend
      <3>1. flush.batch \in Seq(Msgs) /\ flush.batch # << >>
        BY <2>1 DEF FlushSend, TypeOK, FlushOnlyWhileServing
      <3>2. NextMsg \in InBatch
        BY <3>1 DEF NextMsg, InBatch, Range
      <3>3. call[NextMsg] # "idle"
        BY <3>2 DEF StoredIsSettled, Settled
      <3>4. QED
        BY <2>1, <3>3 DEF FlushSend
    <2>2. CASE ~FlushSend
      BY <1>2, <2>2 DEF Flush, FlushSelect, FlushDrained, FlushInterrupted,
                        FlushMark, FlushDbError
    <2>3. QED
      BY <2>1, <2>2
  <1>3. CASE Environment
    <2>1. CASE LinkClosed \/ Crash
      BY <1>t, <2>1 DEF LinkClosed, Crash, DrainRaises
    <2>2. CASE ~(LinkClosed \/ Crash)
      BY <1>3, <2>2 DEF Environment, CleanupRun, SetClock, ServerReceives, LinkBreaks
    <2>3. QED
      BY <2>1, <2>2
  <1>4. ASSUME NEW why, LeaveServing(why)
        PROVE  IdleIsUnwritten' /\ DrainingWasWritten'
    BY <1>t, <1>4 DEF LeaveServing, Disconnect, DropConnection, DrainRaises
  <1>5. CASE Client
    <2>1. CASE Connect
      BY <2>1 DEF Connect, LinkFollowsClient
    <2>2. CASE ConnectFails \/ DelayExpires
      BY <2>2 DEF ConnectFails, DelayExpires
    <2>3. CASE ReceiveLoopEnds \/ ReceiveLoopFails
      BY <2>3, <1>4 DEF ReceiveLoopEnds, ReceiveLoopFails
    <2>4. CASE FinishClosing
      BY <1>t, <2>4 DEF FinishClosing, Disconnect, DropConnection, DrainRaises
    <2>5. CASE Stop
      BY <2>5, <1>4 DEF Stop
    <2>6. QED
      BY <1>5, <2>1, <2>2, <2>3, <2>4, <2>5 DEF Client
  <1>6. CASE UNCHANGED vars
    BY <1>6 DEF vars
  <1>7. QED
    BY <1>1, <1>2, <1>3, <1>5, <1>6 DEF Next

-------------------------------------------------------------------------------
(* What a statement does to the rows, and to the set of pending rows.      *)
LEMMA InsertFacts ==
    ASSUME NEW tbl \in [Msgs -> Rows], NEW m \in Msgs, NEW n \in Msgs, NEW t
    PROVE  /\ n # m => Insert(tbl, m, t)[n] = tbl[n]
           /\ tbl[m].st # "absent" => Insert(tbl, m, t)[m] = tbl[m]
           /\ Insert(tbl, m, t)[m].st # "absent"
           /\ Insert(tbl, m, t)[m].st = "sent" => tbl[m].st = "sent"
  BY DEF Insert

LEMMA MarkFacts ==
    ASSUME NEW tbl \in [Msgs -> Rows], NEW m \in Msgs, NEW n \in Msgs, NEW t
    PROVE  /\ n # m => MarkSent(tbl, m, t)[n] = tbl[n]
           /\ MarkSent(tbl, m, t)[m].st # "pending"
           /\ MarkSent(tbl, m, t)[m].st = "absent" <=> tbl[m].st = "absent"
  BY DEF MarkSent, Rows

LEMMA CleanupFacts ==
    ASSUME NEW tbl \in [Msgs -> Rows], NEW n \in Msgs, NEW t
    PROVE  \/ Cleanup(tbl, t)[n] = tbl[n]
           \/ Cleanup(tbl, t)[n].st = "absent" /\ Stale(tbl[n], t) /\ tbl[n].st # "absent"
  BY DEF Cleanup, NoRow, Stale

(* What is left of a batch without its head. *)
LEMMA TailFacts ==
    ASSUME TypeOK, flush.batch # << >>
    PROVE  /\ NextMsg \in Msgs /\ NextMsg = flush.batch[1] /\ 1 \in DOMAIN flush.batch
           /\ NextMsg \in InBatch
           /\ \A i \in DOMAIN Tail(flush.batch) :
                 i + 1 \in DOMAIN flush.batch /\ Tail(flush.batch)[i] = flush.batch[i + 1]
           /\ Range(Tail(flush.batch)) \subseteq InBatch
           /\ \A m \in InBatch : m # NextMsg => m \in Range(Tail(flush.batch))
  <1> DEFINE b == flush.batch
  <1>1. b \in Seq(Msgs) /\ b # << >>
    BY DEF TypeOK
  <1> HIDE DEF b
  <1>2. /\ Tail(b) \in Seq(Msgs) /\ Len(Tail(b)) = Len(b) - 1 /\ Len(b) \in Nat \ {0}
        /\ \A i \in 1..Len(Tail(b)) : Tail(b)[i] = b[i + 1]
        /\ Head(b) = b[1] /\ b[1] \in Msgs
    BY <1>1
  <1>3. DOMAIN b = 1..Len(b) /\ DOMAIN Tail(b) = 1..Len(Tail(b))
    BY <1>1, <1>2
  <1>4. \A i \in DOMAIN Tail(b) : i + 1 \in DOMAIN b /\ Tail(b)[i] = b[i + 1]
    BY <1>2, <1>3
  <1>5. \A i \in DOMAIN b : i # 1 => i - 1 \in DOMAIN Tail(b) /\ Tail(b)[i - 1] = b[i]
    BY <1>2, <1>3
  <1>6. 1 \in DOMAIN b
    BY <1>2, <1>3
  <1>7. Range(Tail(b)) \subseteq Range(b)
    BY <1>4 DEF Range
  <1>8. \A m \in Range(b) : m # b[1] => m \in Range(Tail(b))
    BY <1>5 DEF Range
  <1>9. QED
    BY <1>2, <1>4, <1>6, <1>7, <1>8 DEF b, NextMsg, InBatch, Range

(* What a SELECT hands over comes from the table.                          *)
LEMMA SelectFacts ==
    ASSUME TypeOK, FlushSelect
    PROVE  /\ flush'.batch \in Batches(buf, BatchSize)
           /\ InBatch' \subseteq Pending(buf)
           /\ IsInjective(flush'.batch)
  <1>1. PICK batch \in Batches(buf, BatchSize) :
          flush' = [pc |-> IF batch = << >> THEN "done" ELSE "send", batch |-> batch]
    BY DEF FlushSelect
  <1>2. flush'.batch = batch
    BY <1>1
  <1>3. QED
    BY <1>2, BatchShape DEF InBatch, Range

LEMMA StoredStep ==
    ASSUME IInv, [Next]_vars
    PROVE  StoredIsSettled'
  <1> USE DEF IInv, clientVars, linkVars, boundVars, historyVars
  <1>t. call \in [Msgs -> CallStates] /\ buf \in [Msgs -> Rows]
    BY DEF TypeOK
  <1>0. StoredIsSettled
    OBVIOUS
  <1>f. ASSUME Settled \subseteq Settled', InBatch' \subseteq InBatch,
               UNCHANGED <<backlog, expired>>,
               \A m \in Msgs : buf'[m].st # "absent" => buf[m].st # "absent"
        PROVE  StoredIsSettled'
    BY <1>0, <1>f DEF StoredIsSettled
  <1>1. ASSUME NEW m \in Msgs, Caller(m) \/ OrphanMark(m)
        PROVE  StoredIsSettled'
    <2>1. CASE SendDirect(m) \/ SendRefused(m) \/ Drained(m) \/ EnqueueFails(m)
      <3>1. Settled \subseteq Settled'
        BY <1>t, <2>1 DEF Settled, SendDirect, SendRefused, Drained, EnqueueFails
      <3>2. UNCHANGED <<buf, flush, backlog, expired>>
        BY <2>1 DEF SendDirect, SendRefused, Drained, EnqueueFails
      <3>3. QED
        BY <1>f, <3>1, <3>2 DEF InBatch
    <2>2. CASE Enqueue(m) \/ CallCancelled(m)
      <3>1. Settled \subseteq Settled' /\ m \in Settled'
        BY <1>t, <2>2 DEF Settled, Enqueue, CallCancelled
      <3>2. buf' \in {buf, Insert(buf, m, now)} /\ UNCHANGED <<flush, backlog, expired>>
        BY <2>2 DEF Enqueue, CallCancelled
      <3>3. \A n \in Msgs : buf'[n].st # "absent" => n = m \/ buf[n].st # "absent"
        BY <1>t, <3>2, InsertFacts
      <3>4. QED
        BY <1>0, <3>1, <3>2, <3>3 DEF StoredIsSettled, InBatch
    <2>3. CASE OrphanMark(m)
      <3>1. \A n \in Msgs : buf'[n].st # "absent" => buf[n].st # "absent"
        BY <1>t, <2>3, MarkFacts DEF OrphanMark
      <3>2. QED
        BY <1>f, <2>3, <3>1 DEF OrphanMark, Settled, InBatch
    <2>4. QED
      BY <1>1, <2>1, <2>2, <2>3 DEF Caller
  <1>2. CASE Flush
    <2>1. CASE FlushSelect
      <3>1. InBatch' \subseteq Settled
        BY <1>0, <2>1, SelectFacts DEF StoredIsSettled, Pending
      <3>2. QED
        BY <1>0, <2>1, <3>1 DEF StoredIsSettled, Settled, FlushSelect
    <2>2. CASE FlushMark
      <3>1. TypeOK /\ flush.batch # << >>
        BY <2>2 DEF FlushMark, FlushOnlyWhileServing
      <3>2. InBatch' \subseteq InBatch
        BY <2>2, <3>1, TailFacts DEF FlushMark, AfterMark, InBatch
      <3>3. \A n \in Msgs : buf'[n].st # "absent" => buf[n].st # "absent"
        BY <1>t, <2>2, <3>1, TailFacts, MarkFacts DEF FlushMark
      <3>4. QED
        BY <1>f, <2>2, <3>2, <3>3 DEF FlushMark, Settled
    <2>3. CASE FlushSend \/ FlushDrained
      <3>1. UNCHANGED <<buf, call, backlog, expired>> /\ flush'.batch = flush.batch
        BY <2>3 DEF FlushSend, FlushDrained, TypeOK
      <3>2. QED
        BY <1>f, <3>1 DEF Settled, InBatch
    <2>4. CASE FlushInterrupted \/ FlushDbError
      <3>1. UNCHANGED <<buf, call, backlog, expired>> /\ flush'.batch = << >>
        BY <2>4 DEF FlushInterrupted, FlushDbError
      <3>2. QED
        BY <1>f, <3>1 DEF Settled, InBatch, Range
    <2>5. QED
      BY <1>2, <2>1, <2>2, <2>3, <2>4 DEF Flush
  <1>3. CASE Environment
    <2>1. CASE LinkClosed
      <3>1. Settled \subseteq Settled'
        BY <1>t, <2>1 DEF LinkClosed, DrainRaises, Settled
      <3>2. QED
        BY <1>f, <2>1, <3>1 DEF LinkClosed, InBatch
    <2>2. CASE Crash
      <3>1. Settled \subseteq Settled' /\ UNCHANGED <<buf, expired>>
        BY <1>t, <2>2 DEF Crash, Settled
      <3>2. InBatch' = {} /\ backlog' = {}
        BY <2>2 DEF Crash, NoFlush, InBatch, Range
      <3>3. QED
        BY <1>0, <3>1, <3>2 DEF StoredIsSettled
    <2>3. CASE CleanupRun
      <3>1. \A n \in Msgs : buf'[n].st # "absent" => buf[n].st # "absent"
        BY <1>t, <2>3, CleanupFacts DEF CleanupRun
      <3>2. expired' \subseteq Settled /\ UNCHANGED <<call, flush, backlog>>
        BY <1>0, <2>3 DEF CleanupRun, StoredIsSettled, Pending
      <3>3. QED
        BY <1>0, <3>1, <3>2 DEF StoredIsSettled, Settled, InBatch
    <2>4. CASE (\E t \in 0..MaxTime : SetClock(t)) \/ ServerReceives \/ LinkBreaks
      BY <1>f, <2>4 DEF SetClock, ServerReceives, LinkBreaks, Settled, InBatch
    <2>5. QED
      BY <1>3, <2>1, <2>2, <2>3, <2>4 DEF Environment
  <1>4. ASSUME NEW why, LeaveServing(why)
        PROVE  StoredIsSettled'
    <2>1. Settled \subseteq Settled' /\ UNCHANGED <<buf, expired>>
      BY <1>t, <1>4 DEF LeaveServing, Disconnect, DropConnection, DrainRaises, Settled
    <2>2. InBatch' = {} /\ backlog' \subseteq backlog
      BY <1>4 DEF LeaveServing, Disconnect, DropConnection, NoFlush, InBatch, Range
    <2>3. QED
      BY <1>0, <2>1, <2>2 DEF StoredIsSettled
  <1>5. CASE Client
    <2>1. CASE Connect
      <3>1. InBatch' = {} /\ UNCHANGED <<buf, call, expired>> /\ backlog' = Pending(buf)
        BY <2>1 DEF Connect, InBatch, Range
      <3>2. QED
        BY <1>0, <3>1 DEF StoredIsSettled, Settled, Pending
    <2>2. CASE ConnectFails \/ DelayExpires
      BY <1>f, <2>2 DEF ConnectFails, DelayExpires, Settled, InBatch
    <2>3. CASE ReceiveLoopEnds \/ ReceiveLoopFails
      BY <2>3, <1>4 DEF ReceiveLoopEnds, ReceiveLoopFails
    <2>4. CASE FinishClosing
      <3>1. Settled \subseteq Settled' /\ UNCHANGED <<buf, flush, expired>> /\ backlog' = {}
        BY <1>t, <2>4 DEF FinishClosing, Disconnect, DropConnection, DrainRaises, Settled
      <3>2. QED
        BY <1>0, <3>1 DEF StoredIsSettled, InBatch
    <2>5. CASE Stop
      <3>1. CASE LeaveServing("cancelled")
        BY <3>1, <1>4
      <3>2. CASE ~LeaveServing("cancelled")
        BY <1>f, <2>5, <3>2 DEF Stop, Settled, InBatch
      <3>3. QED
        BY <3>1, <3>2
    <2>6. QED
      BY <1>5, <2>1, <2>2, <2>3, <2>4, <2>5 DEF Client
  <1>6. CASE UNCHANGED vars
    BY <1>f, <1>6 DEF vars, Settled, InBatch
  <1>7. QED
    BY <1>1, <1>2, <1>3, <1>5, <1>6 DEF Next

(* Nothing disappears from under the flush but by age. *)
LEMMA KnownStep ==
    ASSUME IInv, [Next]_vars
    PROVE  BatchIsKnown'
  <1> USE DEF IInv, clientVars, linkVars, boundVars, historyVars
  <1>t. buf \in [Msgs -> Rows] /\ flush.batch \in Seq(Msgs) /\ InBatch \subseteq Msgs
    BY DEF TypeOK, InBatch, Range
  <1>0. BatchIsKnown
    OBVIOUS
  <1>f. ASSUME InBatch' \subseteq InBatch,
               Pending(buf) \subseteq (wrote \cup Pending(buf) \cup expired)',
               wrote \subseteq wrote', expired \subseteq expired'
        PROVE  BatchIsKnown'
    BY <1>0, <1>f DEF BatchIsKnown
  <1>1. ASSUME NEW m \in Msgs, Caller(m) \/ OrphanMark(m)
        PROVE  BatchIsKnown'
    <2>1. CASE Enqueue(m) \/ CallCancelled(m)
      <3>1. buf' \in {buf, Insert(buf, m, now)} /\ UNCHANGED <<flush, wrote, expired>>
        BY <2>1 DEF Enqueue, CallCancelled
      <3>2. Pending(buf) \subseteq Pending(buf)'
        BY <1>t, <3>1, InsertFacts DEF Pending
      <3>3. QED
        BY <1>f, <3>1, <3>2 DEF InBatch
    <2>2. CASE OrphanMark(m)
      <3>1. m \in wrote
        BY <2>2 DEF OrphanMark, MarkFollowsWrite
      <3>2. \A n \in Msgs : n # m => buf'[n] = buf[n]
        BY <1>t, <2>2, MarkFacts DEF OrphanMark
      <3>3. QED
        BY <1>f, <2>2, <3>1, <3>2 DEF OrphanMark, InBatch, Pending
    <2>3. CASE SendDirect(m) \/ SendRefused(m) \/ Drained(m) \/ EnqueueFails(m)
      BY <1>f, <2>3 DEF SendDirect, SendRefused, Drained, EnqueueFails, InBatch, Pending
    <2>4. QED
      BY <1>1, <2>1, <2>2, <2>3 DEF Caller
  <1>2. CASE Flush
    <2>1. CASE FlushSelect
      BY <2>1, SelectFacts DEF FlushSelect, BatchIsKnown, Pending
    <2>2. CASE FlushSend \/ FlushDrained
      <3>1. flush'.batch = flush.batch /\ UNCHANGED <<buf, expired>> /\ wrote \subseteq wrote'
        BY <2>2 DEF FlushSend, FlushDrained, TypeOK
      <3>2. QED
        BY <1>f, <3>1 DEF InBatch, Pending
    <2>3. CASE FlushInterrupted \/ FlushDbError
      <3>1. InBatch' = {}
        BY <2>3 DEF FlushInterrupted, FlushDbError, InBatch, Range
      <3>2. QED
        BY <3>1 DEF BatchIsKnown
    <2>4. CASE FlushMark
      <3>1. TypeOK /\ flush.batch # << >>
        BY <2>4 DEF FlushMark, FlushOnlyWhileServing
      <3>2. InBatch' \subseteq InBatch
        BY <2>4, <3>1, TailFacts DEF FlushMark, AfterMark, InBatch
      <3>3. NextMsg \in wrote /\ \A n \in Msgs : n # NextMsg => buf'[n] = buf[n]
        BY <1>t, <2>4, <3>1, TailFacts, MarkFacts DEF FlushMark, MarkFollowsWrite
      <3>4. QED
        BY <1>f, <2>4, <3>2, <3>3 DEF FlushMark, Pending
    <2>5. QED
      BY <1>2, <2>1, <2>2, <2>3, <2>4 DEF Flush
  <1>3. CASE Environment
    <2>1. CASE CleanupRun
      <3>1. \A n \in Pending(buf) : n \in Pending(buf)' \/ Stale(buf[n], now)
        BY <1>t, <2>1, CleanupFacts DEF CleanupRun, Pending
      <3>2. QED
        BY <1>f, <2>1, <3>1 DEF CleanupRun, InBatch, Pending
    <2>2. CASE Crash
      <3>1. InBatch' = {}
        BY <2>2 DEF Crash, NoFlush, InBatch, Range
      <3>2. QED
        BY <3>1 DEF BatchIsKnown
    <2>3. CASE (\E t \in 0..MaxTime : SetClock(t)) \/ ServerReceives \/ LinkBreaks \/ LinkClosed
      BY <1>f, <2>3 DEF SetClock, ServerReceives, LinkBreaks, LinkClosed, InBatch, Pending
    <2>4. QED
      BY <1>3, <2>1, <2>2, <2>3 DEF Environment
  <1>4. ASSUME NEW why, LeaveServing(why)
        PROVE  BatchIsKnown'
    <2>1. InBatch' = {}
      BY <1>4 DEF LeaveServing, NoFlush, InBatch, Range
    <2>2. QED
      BY <2>1 DEF BatchIsKnown
  <1>5. CASE Client
    <2>1. CASE Connect
      <3>1. InBatch' = {}
        BY <2>1 DEF Connect, InBatch, Range
      <3>2. QED
        BY <3>1 DEF BatchIsKnown
    <2>2. CASE ConnectFails \/ DelayExpires \/ FinishClosing
      BY <1>f, <2>2 DEF ConnectFails, DelayExpires, FinishClosing, Disconnect,
                        DropConnection, InBatch, Pending
    <2>3. CASE ReceiveLoopEnds \/ ReceiveLoopFails
      BY <2>3, <1>4 DEF ReceiveLoopEnds, ReceiveLoopFails
    <2>4. CASE Stop
      <3>1. CASE LeaveServing("cancelled")
        BY <3>1, <1>4
      <3>2. CASE ~LeaveServing("cancelled")
        BY <1>f, <2>4, <3>2 DEF Stop, InBatch, Pending
      <3>3. QED
        BY <3>1, <3>2
    <2>5. QED
      BY <1>5, <2>1, <2>2, <2>3, <2>4 DEF Client
  <1>6. CASE UNCHANGED vars
    BY <1>f, <1>6 DEF vars, InBatch, Pending
  <1>7. QED
    BY <1>1, <1>2, <1>3, <1>5, <1>6 DEF Next

(* A mark never comes before its write, not even one that outlives its task. *)
LEMMA MarkStep ==
    ASSUME IInv, [Next]_vars
    PROVE  MarkFollowsWrite'
  <1> USE DEF IInv, clientVars, linkVars, boundVars, historyVars
  <1>t. buf \in [Msgs -> Rows]
    BY DEF TypeOK
  <1>0. MarkFollowsWrite
    OBVIOUS
  <1>f. ASSUME wrote \subseteq wrote', orphans' \subseteq orphans,
               flush'.pc \in {"drain", "mark"} => flush' = flush,
               \A m \in Msgs : buf'[m].st = "sent" => buf[m].st = "sent"
        PROVE  MarkFollowsWrite'
    BY <1>0, <1>f DEF MarkFollowsWrite, SentRowWasWritten, NextMsg
  <1>1. ASSUME NEW m \in Msgs, Caller(m) \/ OrphanMark(m)
        PROVE  MarkFollowsWrite'
    <2>1. CASE SendDirect(m) \/ SendRefused(m) \/ Drained(m) \/ EnqueueFails(m)
      BY <1>f, <2>1 DEF SendDirect, SendRefused, Drained, EnqueueFails
    <2>2. CASE Enqueue(m) \/ CallCancelled(m)
      <3>1. buf' \in {buf, Insert(buf, m, now)} /\ UNCHANGED <<wrote, orphans, flush>>
        BY <2>2 DEF Enqueue, CallCancelled
      <3>2. \A n \in Msgs : buf'[n].st = "sent" => buf[n].st = "sent"
        BY <1>t, <3>1, InsertFacts
      <3>3. QED
        BY <1>f, <3>1, <3>2
    <2>3. CASE OrphanMark(m)
      <3>1. m \in wrote
        BY <1>0, <2>3 DEF OrphanMark, MarkFollowsWrite
      <3>2. \A n \in Msgs : n # m => buf'[n] = buf[n]
        BY <1>t, <2>3, MarkFacts DEF OrphanMark
      <3>3. QED
        BY <1>0, <2>3, <3>1, <3>2
        DEF OrphanMark, MarkFollowsWrite, SentRowWasWritten, NextMsg
    <2>4. QED
      BY <1>1, <2>1, <2>2, <2>3 DEF Caller
  <1>2. CASE Flush
    <2>1. CASE FlushSend
      <3>1. flush'.pc = "drain" /\ NextMsg' = NextMsg
        BY <2>1 DEF FlushSend, NextMsg, TypeOK
      <3>2. QED
        BY <1>0, <2>1, <3>1 DEF FlushSend, MarkFollowsWrite, SentRowWasWritten
    <2>2. CASE FlushDrained
      <3>1. NextMsg' = NextMsg
        BY <2>2 DEF FlushDrained, NextMsg, TypeOK
      <3>2. QED
        BY <1>0, <2>2, <3>1 DEF FlushDrained, MarkFollowsWrite, SentRowWasWritten
    <2>3. CASE FlushMark
      <3>1. NextMsg \in wrote /\ NextMsg \in Msgs
        BY <1>0, <2>3, TailFacts DEF FlushMark, MarkFollowsWrite, FlushOnlyWhileServing
      <3>2. \A n \in Msgs : n # NextMsg => buf'[n] = buf[n]
        BY <1>t, <2>3, <3>1, MarkFacts DEF FlushMark
      <3>3. flush'.pc \notin {"drain", "mark"}
        BY <2>3 DEF FlushMark, AfterMark
      <3>4. QED
        BY <1>0, <2>3, <3>1, <3>2, <3>3 DEF FlushMark, MarkFollowsWrite, SentRowWasWritten
    <2>4. CASE FlushSelect \/ FlushInterrupted \/ FlushDbError
      <3>1. flush'.pc \notin {"drain", "mark"} /\ UNCHANGED <<buf, orphans, wrote>>
        BY <2>4 DEF FlushSelect, FlushInterrupted, FlushDbError
      <3>2. QED
        BY <1>f, <3>1
    <2>5. QED
      BY <1>2, <2>1, <2>2, <2>3, <2>4 DEF Flush
  <1>3. CASE Environment
    <2>1. CASE CleanupRun
      <3>1. \A n \in Msgs : buf'[n].st = "sent" => buf[n].st = "sent"
        BY <1>t, <2>1, CleanupFacts DEF CleanupRun
      <3>2. QED
        BY <1>f, <2>1, <3>1 DEF CleanupRun
    <2>2. CASE ~CleanupRun
      BY <1>3, <1>f, <2>2 DEF Environment, SetClock, ServerReceives, LinkBreaks,
                              LinkClosed, Crash, NoFlush
    <2>3. QED
      BY <2>1, <2>2
  <1>4. ASSUME NEW why, LeaveServing(why)
        PROVE  MarkFollowsWrite'
    <2>1. orphans' \subseteq wrote
      BY <1>0, <1>4 DEF LeaveServing, MarkFollowsWrite
    <2>2. QED
      BY <1>0, <1>4, <2>1 DEF LeaveServing, NoFlush, MarkFollowsWrite, SentRowWasWritten
  <1>5. CASE Client
    <2>1. CASE Connect \/ ConnectFails \/ DelayExpires
      BY <1>f, <2>1 DEF Connect, ConnectFails, DelayExpires
    <2>2. CASE ReceiveLoopEnds \/ ReceiveLoopFails
      BY <2>2, <1>4 DEF ReceiveLoopEnds, ReceiveLoopFails
    <2>3. CASE FinishClosing
      BY <1>f, <2>3 DEF FinishClosing, Disconnect, DropConnection
    <2>4. CASE Stop
      BY <1>f, <2>4, <1>4 DEF Stop
    <2>5. QED
      BY <1>5, <2>1, <2>2, <2>3, <2>4 DEF Client
  <1>6. CASE UNCHANGED vars
    BY <1>f, <1>6 DEF vars
  <1>7. QED
    BY <1>1, <1>2, <1>3, <1>5, <1>6 DEF Next

(* What send_or_buffer has accepted is written, stored or too old. *)
LEMMA DroppedStep ==
    ASSUME IInv, [Next]_vars
    PROVE  NothingDropped'
  <1> USE DEF IInv, clientVars, linkVars, boundVars, historyVars
  <1>t. call \in [Msgs -> CallStates] /\ buf \in [Msgs -> Rows]
    BY DEF TypeOK
  <1>0. NothingDropped
    OBVIOUS
  <1>f. ASSUME wrote \subseteq wrote', expired \subseteq expired',
               \A m \in Msgs : call'[m] = "done" => call[m] = "done",
               \A m \in Msgs : buf[m].st # "absent" => buf'[m].st # "absent"
        PROVE  NothingDropped'
    BY <1>0, <1>f DEF NothingDropped
  <1>1. ASSUME NEW m \in Msgs, Caller(m) \/ OrphanMark(m)
        PROVE  NothingDropped'
    <2>1. CASE SendDirect(m)
      BY <1>t, <1>0, <2>1 DEF SendDirect, NothingDropped
    <2>2. CASE Drained(m)
      BY <1>t, <1>0, <2>2 DEF Drained, NothingDropped, DrainingWasWritten
    <2>3. CASE SendRefused(m) \/ EnqueueFails(m)
      BY <1>t, <1>f, <2>3 DEF SendRefused, EnqueueFails
    <2>4. CASE Enqueue(m)
      <3>1. \A n \in Msgs : /\ n # m => buf'[n] = buf[n]
                            /\ buf'[m].st # "absent"
        BY <1>t, <2>4, InsertFacts DEF Enqueue
      <3>2. QED
        BY <1>t, <1>0, <2>4, <3>1 DEF Enqueue, NothingDropped
    <2>5. CASE CallCancelled(m)
      <3>1. buf' \in {buf, Insert(buf, m, now)}
        BY <2>5 DEF CallCancelled
      <3>2. \A n \in Msgs : buf[n].st # "absent" => buf'[n].st # "absent"
        BY <1>t, <3>1, InsertFacts
      <3>3. QED
        BY <1>t, <1>f, <2>5, <3>2 DEF CallCancelled
    <2>6. CASE OrphanMark(m)
      <3>1. \A n \in Msgs : buf[n].st # "absent" => buf'[n].st # "absent"
        BY <1>t, <2>6, MarkFacts DEF OrphanMark
      <3>2. QED
        BY <1>f, <2>6, <3>1 DEF OrphanMark
    <2>7. QED
      BY <1>1, <2>1, <2>2, <2>3, <2>4, <2>5, <2>6 DEF Caller
  <1>2. CASE Flush
    <2>1. CASE FlushMark
      <3>1. NextMsg \in Msgs
        BY <2>1, TailFacts DEF FlushMark, FlushOnlyWhileServing
      <3>2. \A n \in Msgs : buf[n].st # "absent" => buf'[n].st # "absent"
        BY <1>t, <2>1, <3>1, MarkFacts DEF FlushMark
      <3>3. QED
        BY <1>f, <2>1, <3>2 DEF FlushMark
    <2>2. CASE ~FlushMark
      BY <1>2, <1>f, <2>2 DEF Flush, FlushSelect, FlushSend, FlushDrained,
                              FlushInterrupted, FlushDbError
    <2>3. QED
      BY <2>1, <2>2
  <1>3. CASE Environment
    <2>1. CASE CleanupRun
      <3>1. ASSUME NEW n \in Msgs, call[n] = "done", n \notin wrote, n \notin expired'
            PROVE  buf'[n].st # "absent"
        <4>1. buf[n].st # "absent" /\ buf[n].st # "sent"
          BY <1>0, <2>1, <3>1
          DEF CleanupRun, NothingDropped, MarkFollowsWrite, SentRowWasWritten
        <4>2. ~Stale(buf[n], now)
          BY <1>t, <2>1, <3>1, <4>1 DEF CleanupRun, Pending, Rows
        <4>3. QED
          BY <1>t, <2>1, <4>1, <4>2, CleanupFacts DEF CleanupRun
      <3>2. QED
        BY <2>1, <3>1 DEF CleanupRun, NothingDropped
    <2>2. CASE LinkClosed \/ Crash
      <3>1. \A m \in Msgs : call'[m] = "done" => call[m] = "done"
        BY <1>t, <2>2 DEF LinkClosed, Crash, DrainRaises
      <3>2. QED
        BY <1>f, <2>2, <3>1 DEF LinkClosed, Crash
    <2>3. CASE (\E t \in 0..MaxTime : SetClock(t)) \/ ServerReceives \/ LinkBreaks
      BY <1>f, <2>3 DEF SetClock, ServerReceives, LinkBreaks
    <2>4. QED
      BY <1>3, <2>1, <2>2, <2>3 DEF Environment
  <1>4. ASSUME NEW why, LeaveServing(why)
        PROVE  NothingDropped'
    BY <1>t, <1>f, <1>4 DEF LeaveServing, Disconnect, DropConnection, DrainRaises
  <1>5. CASE Client
    <2>1. CASE Connect \/ ConnectFails \/ DelayExpires
      BY <1>f, <2>1 DEF Connect, ConnectFails, DelayExpires
    <2>2. CASE ReceiveLoopEnds \/ ReceiveLoopFails
      BY <2>2, <1>4 DEF ReceiveLoopEnds, ReceiveLoopFails
    <2>3. CASE FinishClosing
      BY <1>t, <1>f, <2>3 DEF FinishClosing, Disconnect, DropConnection, DrainRaises
    <2>4. CASE Stop
      BY <1>f, <2>4, <1>4 DEF Stop
    <2>5. QED
      BY <1>5, <2>1, <2>2, <2>3, <2>4 DEF Client
  <1>6. CASE UNCHANGED vars
    BY <1>f, <1>6 DEF vars
  <1>7. QED
    BY <1>1, <1>2, <1>3, <1>5, <1>6 DEF Next

-------------------------------------------------------------------------------
(* One more frame on the connection. *)
LEMMA AppendFacts ==
    ASSUME NEW S, NEW s \in Seq(S), NEW x \in S
    PROVE  /\ DOMAIN Append(s, x) = 1..(Len(s) + 1) /\ DOMAIN s = 1..Len(s)
           /\ \A i \in DOMAIN s : Append(s, x)[i] = s[i]
           /\ \A i \in DOMAIN Append(s, x) : i \in DOMAIN s \/ i = Len(s) + 1
           /\ Append(s, x)[Len(s) + 1] = x
           /\ (IsInjective(s) /\ \A i \in DOMAIN s : s[i] # x) => IsInjective(Append(s, x))
  <1>1. /\ DOMAIN Append(s, x) = 1..(Len(s) + 1) /\ DOMAIN s = 1..Len(s) /\ Len(s) \in Nat
        /\ \A i \in 1..Len(s) : Append(s, x)[i] = s[i]
        /\ Append(s, x)[Len(s) + 1] = x
    OBVIOUS
  <1>2. \A i \in 1..(Len(s) + 1) : i \in 1..Len(s) \/ i = Len(s) + 1
    BY <1>1
  <1>3. ASSUME IsInjective(s), \A i \in DOMAIN s : s[i] # x
        PROVE  IsInjective(Append(s, x))
    BY <1>1, <1>2, <1>3 DEF IsInjective
  <1>4. QED
    BY <1>1, <1>2, <1>3

(* The message a running flush is about to write is not on the connection. *)
LEMMA HeadIsNew ==
    ASSUME IInv, FlushSend
    PROVE  /\ NextMsg \in Msgs /\ NextMsg \in InBatch
           /\ \A i \in DOMAIN log : log[i] # NextMsg
  <1>1. TypeOK /\ flush.batch # << >>
    BY DEF IInv, FlushSend, FlushOnlyWhileServing
  <1>2. NextMsg \in Msgs /\ NextMsg \in InBatch
    BY <1>1, TailFacts
  <1>3. QED
    BY <1>2 DEF IInv, FlushSend, NothingToRepeat, FlushActive

(* What is on the connection was written, and only once. *)
LEMMA LogStep ==
    ASSUME IInv, [Next]_vars
    PROVE  LogIsWritten' /\ WrittenOncePerConnection'
  <1> USE DEF IInv, LogIsWritten, WrittenOncePerConnection,
              clientVars, linkVars, boundVars, historyVars
  <1>t. log \in Seq(Msgs \cup {Sync})
    BY DEF TypeOK
  <1>e. ASSUME log' = << >> PROVE LogIsWritten' /\ WrittenOncePerConnection'
    BY <1>e DEF IsInjective
  <1>1. ASSUME NEW m \in Msgs, Caller(m) \/ OrphanMark(m)
        PROVE  LogIsWritten' /\ WrittenOncePerConnection'
    <2>1. CASE SendDirect(m)
      <3>1. m \notin wrote /\ m # Sync
        BY <2>1, SyncAssumption DEF SendDirect, IdleIsUnwritten
      <3>2. \A i \in DOMAIN log : log[i] # m
        BY <3>1
      <3>3. log' = Append(log, m) /\ wrote' = wrote \cup {m}
        BY <2>1 DEF SendDirect
      <3>4. QED
        BY <1>t, <3>2, <3>3, AppendFacts
    <2>2. CASE ~SendDirect(m)
      BY <1>1, <2>2 DEF Caller, SendRefused, Drained, Enqueue, EnqueueFails,
                        CallCancelled, OrphanMark
    <2>3. QED
      BY <2>1, <2>2
  <1>2. CASE Flush
    <2>1. CASE FlushSend
      <3>1. log' = Append(log, NextMsg) /\ wrote' = wrote \cup {NextMsg}
        BY <2>1 DEF FlushSend
      <3>2. QED
        BY <1>t, <2>1, <3>1, HeadIsNew, AppendFacts
    <2>2. CASE ~FlushSend
      BY <1>2, <2>2 DEF Flush, FlushSelect, FlushDrained, FlushInterrupted,
                        FlushMark, FlushDbError
    <2>3. QED
      BY <2>1, <2>2
  <1>3. CASE Environment
    <2>1. CASE Crash
      BY <2>1, <1>e DEF Crash
    <2>2. CASE ~Crash
      BY <1>3, <2>2 DEF Environment, CleanupRun, SetClock, ServerReceives, LinkBreaks,
                        LinkClosed
    <2>3. QED
      BY <2>1, <2>2
  <1>4. ASSUME NEW why, LeaveServing(why)
        PROVE  LogIsWritten' /\ WrittenOncePerConnection'
    <2>1. wrote' = wrote /\ (log' = log \/ log' = << >>)
      BY <1>4 DEF LeaveServing, Disconnect, DropConnection
    <2>2. QED
      BY <2>1, <1>e
  <1>5. CASE Client
    <2>1. CASE Connect
      <3>1. log' = <<Sync>>
        BY <2>1 DEF Connect
      <3>2. QED
        BY <3>1 DEF IsInjective
    <2>2. CASE ConnectFails \/ DelayExpires
      BY <2>2 DEF ConnectFails, DelayExpires
    <2>3. CASE ReceiveLoopEnds \/ ReceiveLoopFails
      BY <2>3, <1>4 DEF ReceiveLoopEnds, ReceiveLoopFails
    <2>4. CASE FinishClosing
      BY <2>4, <1>e DEF FinishClosing, Disconnect, DropConnection
    <2>5. CASE Stop
      BY <2>5, <1>4 DEF Stop
    <2>6. QED
      BY <1>5, <2>1, <2>2, <2>3, <2>4, <2>5 DEF Client
  <1>6. CASE UNCHANGED vars
    BY <1>6 DEF vars
  <1>7. QED
    BY <1>1, <1>2, <1>3, <1>5, <1>6 DEF Next

(* Neither the flush nor a suspended call holds what is on the connection. *)
LEMMA RepeatStep ==
    ASSUME IInv, [Next]_vars
    PROVE  NothingToRepeat'
  <1> USE DEF IInv, clientVars, linkVars, boundVars, historyVars
  <1>t. /\ call \in [Msgs -> CallStates] /\ buf \in [Msgs -> Rows]
        /\ log \in Seq(Msgs \cup {Sync})
    BY DEF TypeOK
  <1>0. NothingToRepeat
    OBVIOUS
  <1>f. ASSUME LinkUsable' => LinkUsable, UNCHANGED <<log, flush>>,
               \A m \in Msgs : call'[m] = "enqueue" => call[m] = "enqueue",
               Pending(buf)' \subseteq Pending(buf)
        PROVE  NothingToRepeat'
    BY <1>0, <1>f DEF NothingToRepeat, InBatch, FlushActive, NextMsg
  <1>d. ASSUME ~LinkUsable' PROVE NothingToRepeat'
    BY <1>d DEF NothingToRepeat
  <1>1. ASSUME NEW m \in Msgs, Caller(m) \/ OrphanMark(m)
        PROVE  NothingToRepeat'
    <2>1. CASE SendDirect(m)
      <3>1. log' = Append(log, m) /\ UNCHANGED <<buf, flush, link>>
        BY <2>1 DEF SendDirect
      <3>2. m \notin Pending(buf) /\ m \notin InBatch
        BY <2>1 DEF SendDirect, StoredIsSettled, Settled, Pending
      <3>3. \A n \in Msgs : call'[n] = "enqueue" => call[n] = "enqueue" /\ n # m
        BY <1>t, <2>1 DEF SendDirect
      <3>4. LinkUsable
        BY <2>1 DEF SendDirect
      <3>5. \A i \in DOMAIN log' : (i \in DOMAIN log /\ log'[i] = log[i]) \/ log'[i] = m
        BY <1>t, <3>1, AppendFacts
      <3>6. ASSUME NEW i \in DOMAIN log', NEW n \in Msgs, call'[n] = "enqueue"
            PROVE  log'[i] # n
        BY <1>0, <3>3, <3>4, <3>5, <3>6 DEF NothingToRepeat
      <3>7. ASSUME NEW i \in DOMAIN log', FlushActive', log'[i] \in (Pending(buf) \cup InBatch)'
            PROVE  (flush.pc \in {"drain", "mark"} /\ log[i] = NextMsg)'
        <4>1. Pending(buf)' = Pending(buf) /\ InBatch' = InBatch /\ FlushActive
          BY <3>1, <3>7 DEF Pending, InBatch, FlushActive
        <4>2. i \in DOMAIN log /\ log'[i] = log[i]
          BY <3>2, <3>5, <3>7, <4>1
        <4>3. flush.pc \in {"drain", "mark"} /\ log[i] = NextMsg
          BY <1>0, <3>4, <3>7, <4>1, <4>2 DEF NothingToRepeat
        <4>4. QED
          BY <3>1, <4>2, <4>3 DEF NextMsg
      <3>8. QED
        BY <3>6, <3>7 DEF NothingToRepeat
    <2>2. CASE SendRefused(m)
      BY <1>d, <2>2 DEF SendRefused, LinkUsable, LinkFollowsClient
    <2>3. CASE Drained(m) \/ EnqueueFails(m)
      BY <1>t, <1>f, <2>3 DEF Drained, EnqueueFails, LinkUsable, Pending
    <2>4. CASE Enqueue(m) \/ CallCancelled(m)
      <3>1. /\ buf' = buf \/ (buf' = Insert(buf, m, now) /\ call[m] = "enqueue")
            /\ UNCHANGED <<log, flush, link>>
        BY <2>4 DEF Enqueue, CallCancelled
      <3>2. \A n \in Msgs : call'[n] = "enqueue" => call[n] = "enqueue"
        BY <1>t, <2>4 DEF Enqueue, CallCancelled
      <3>3. \A n \in Pending(buf)' : n \in Pending(buf) \/ (n = m /\ call[m] = "enqueue")
        BY <1>t, <3>1, InsertFacts DEF Pending
      <3>4. QED
        BY <1>0, <3>1, <3>2, <3>3
        DEF NothingToRepeat, InBatch, FlushActive, NextMsg, LinkUsable
    <2>5. CASE OrphanMark(m)
      <3>1. Pending(buf)' \subseteq Pending(buf)
        BY <1>t, <2>5, MarkFacts DEF OrphanMark, Pending
      <3>2. QED
        BY <1>f, <2>5, <3>1 DEF OrphanMark, LinkUsable
    <2>6. QED
      BY <1>1, <2>1, <2>2, <2>3, <2>4, <2>5 DEF Caller
  <1>2. CASE Flush
    <2>1. CASE FlushSelect
      <3>1. InBatch' \subseteq Pending(buf) /\ UNCHANGED <<log, buf, link, call>>
        BY <2>1, SelectFacts DEF FlushSelect
      <3>2. flush.pc = "read"
        BY <2>1 DEF FlushSelect
      <3>3. QED
        BY <1>0, <3>1, <3>2 DEF NothingToRepeat, FlushActive, LinkUsable, Pending
    <2>2. CASE FlushSend
      <3>1. /\ log' = Append(log, NextMsg) /\ UNCHANGED <<buf, call, link>>
            /\ flush'.pc = "drain" /\ flush'.batch = flush.batch /\ flush.pc = "send"
            /\ LinkUsable
        BY <2>2 DEF FlushSend, TypeOK
      <3>2. NextMsg' = NextMsg /\ InBatch' = InBatch /\ Pending(buf)' = Pending(buf)
        BY <3>1 DEF NextMsg, InBatch, Pending
      <3>3. NextMsg \in Msgs /\ NextMsg \in InBatch
        BY <2>2, HeadIsNew
      <3>4. \A i \in DOMAIN log' : (i \in DOMAIN log /\ log'[i] = log[i]) \/ log'[i] = NextMsg
        BY <1>t, <3>1, <3>3, AppendFacts
      <3>5. call[NextMsg] # "enqueue"
        BY <3>3 DEF StoredIsSettled, Settled
      <3>6. \A i \in DOMAIN log, m \in Msgs : call[m] = "enqueue" => log[i] # m
        BY <1>0, <3>1 DEF NothingToRepeat
      <3>7. \A i \in DOMAIN log : log[i] \notin Pending(buf) \cup InBatch
        BY <1>0, <3>1 DEF NothingToRepeat, FlushActive
      <3>8. QED
        BY <3>1, <3>2, <3>4, <3>5, <3>6, <3>7 DEF NothingToRepeat
    <2>3. CASE FlushDrained
      <3>1. /\ flush'.pc = "mark" /\ flush'.batch = flush.batch /\ flush.pc = "drain"
            /\ UNCHANGED <<buf, call, log, link>>
        BY <2>3 DEF FlushDrained, TypeOK
      <3>2. QED
        BY <1>0, <3>1 DEF NothingToRepeat, FlushActive, InBatch, NextMsg, Pending, LinkUsable
    <2>4. CASE FlushInterrupted
      BY <1>d, <2>4 DEF FlushInterrupted, LinkUsable
    <2>5. CASE FlushDbError
      <3>1. ~FlushActive' /\ UNCHANGED <<log, call, link>>
        BY <2>5 DEF FlushDbError, FlushActive
      <3>2. QED
        BY <1>0, <3>1 DEF NothingToRepeat, LinkUsable
    <2>6. CASE FlushMark
      <3>1. TypeOK /\ flush.batch # << >>
        BY <2>6 DEF FlushMark, FlushOnlyWhileServing
      <3>2. Range(Tail(flush.batch)) \subseteq InBatch \ {NextMsg}
        <4>1. IsInjective(flush.batch)
          BY DEF BatchInOrder
        <4>2. \A i \in DOMAIN Tail(flush.batch) : Tail(flush.batch)[i] # NextMsg
          <5>1. TAKE i \in DOMAIN Tail(flush.batch)
          <5>2. /\ i + 1 \in DOMAIN flush.batch /\ 1 \in DOMAIN flush.batch
                /\ Tail(flush.batch)[i] = flush.batch[i + 1] /\ NextMsg = flush.batch[1]
            BY <3>1, TailFacts
          <5>3. i \in Nat \ {0}
            <6>1. Tail(flush.batch) \in Seq(Msgs)
              BY <3>1 DEF TypeOK
            <6>2. QED
              BY <6>1
          <5>4. QED
            BY <4>1, <5>2, <5>3 DEF IsInjective
        <4>3. QED
          BY <3>1, <4>2, TailFacts DEF Range
      <3>3. InBatch' \subseteq InBatch \ {NextMsg}
        BY <2>6, <3>2 DEF FlushMark, AfterMark, InBatch
      <3>4. Pending(buf)' \subseteq Pending(buf) \ {NextMsg}
        BY <1>t, <2>6, <3>1, TailFacts, MarkFacts DEF FlushMark, Pending
      <3>5. UNCHANGED <<log, call, link>> /\ FlushActive
        BY <2>6 DEF FlushMark, FlushActive
      <3>6. QED
        BY <1>0, <3>3, <3>4, <3>5 DEF NothingToRepeat, LinkUsable
    <2>7. QED
      BY <1>2, <2>1, <2>2, <2>3, <2>4, <2>5, <2>6 DEF Flush
  <1>3. CASE Environment
    <2>1. CASE LinkClosed \/ Crash
      BY <1>d, <2>1 DEF LinkClosed, Crash, LinkUsable
    <2>2. CASE CleanupRun
      <3>1. Pending(buf)' \subseteq Pending(buf)
        BY <1>t, <2>2, CleanupFacts DEF CleanupRun, Pending
      <3>2. QED
        BY <1>f, <2>2, <3>1 DEF CleanupRun, LinkUsable
    <2>3. CASE (\E t \in 0..MaxTime : SetClock(t)) \/ ServerReceives \/ LinkBreaks
      BY <1>f, <2>3 DEF SetClock, ServerReceives, LinkBreaks, LinkUsable, Pending
    <2>4. QED
      BY <1>3, <2>1, <2>2, <2>3 DEF Environment
  <1>4. ASSUME NEW why, LeaveServing(why)
        PROVE  NothingToRepeat'
    <2>1. CASE FlushActive
      <3>1. ~FlushActive' /\ UNCHANGED <<log, call, link>>
        BY <1>4, <2>1 DEF LeaveServing, NoFlush, FlushActive
      <3>2. QED
        BY <1>0, <3>1 DEF NothingToRepeat, LinkUsable
    <2>2. CASE ~FlushActive
      BY <1>d, <1>4, <2>2 DEF LeaveServing, Disconnect, DropConnection, LinkUsable
    <2>3. QED
      BY <2>1, <2>2
  <1>5. CASE Client
    <2>1. CASE Connect
      <3>1. log' = <<Sync>> /\ InBatch' = {} /\ UNCHANGED buf
        BY <2>1 DEF Connect, InBatch, Range
      <3>2. QED
        BY <3>1, SyncAssumption DEF NothingToRepeat, Pending
    <2>2. CASE ConnectFails \/ DelayExpires
      BY <1>f, <2>2 DEF ConnectFails, DelayExpires, LinkUsable, Pending
    <2>3. CASE ReceiveLoopEnds \/ ReceiveLoopFails
      BY <2>3, <1>4 DEF ReceiveLoopEnds, ReceiveLoopFails
    <2>4. CASE FinishClosing
      BY <1>d, <2>4 DEF FinishClosing, Disconnect, DropConnection, LinkUsable
    <2>5. CASE Stop
      <3>1. CASE LeaveServing("cancelled")
        BY <3>1, <1>4
      <3>2. CASE ~LeaveServing("cancelled")
        BY <1>f, <2>5, <3>2 DEF Stop, LinkUsable, Pending
      <3>3. QED
        BY <3>1, <3>2
    <2>6. QED
      BY <1>5, <2>1, <2>2, <2>3, <2>4, <2>5 DEF Client
  <1>6. CASE UNCHANGED vars
    BY <1>f, <1>6 DEF vars, LinkUsable, Pending
  <1>7. QED
    BY <1>1, <1>2, <1>3, <1>5, <1>6 DEF Next

(* The order of the batch, and that of the backlog behind it. *)
LEMMA OrderStep ==
    ASSUME IInv, [Next]_vars
    PROVE  BatchInOrder'
  <1> USE DEF IInv, clientVars, linkVars, boundVars, historyVars
  <1>t. call \in [Msgs -> CallStates] /\ buf \in [Msgs -> Rows] /\ backlog \subseteq Msgs
        /\ flush.batch \in Seq(Msgs)
    BY DEF TypeOK
  <1>0. BatchInOrder
    OBVIOUS
  <1>m. InBatch \subseteq Msgs /\ \A i \in DOMAIN flush.batch : flush.batch[i] \in InBatch
    BY <1>t DEF InBatch, Range
  <1>f. ASSUME flush'.batch = flush.batch, backlog' \subseteq backlog,
               \A n \in InBatch \cup backlog :
                  n \in Pending(buf)' => n \in Pending(buf) /\ buf'[n] = buf[n]
        PROVE  BatchInOrder'
    <2>1. InBatch' = InBatch
      BY <1>f DEF InBatch
    <2>2. \A i, j \in DOMAIN flush.batch :
             i < j /\ flush.batch[i] \in Pending(buf)' /\ flush.batch[j] \in Pending(buf)'
                => buf'[flush.batch[i]].at <= buf'[flush.batch[j]].at
      BY <1>0, <1>m, <1>f DEF BatchInOrder
    <2>3. \A i \in DOMAIN flush.batch, m \in backlog' :
             flush.batch[i] \in Pending(buf)' /\ m \in Pending(buf)' \ InBatch
                => buf'[flush.batch[i]].at <= buf'[m].at
      BY <1>0, <1>m, <1>f DEF BatchInOrder
    <2>4. IsInjective(flush'.batch)
      BY <1>0, <1>f DEF BatchInOrder
    <2>5. QED
      BY <1>f, <2>1, <2>2, <2>3, <2>4 DEF BatchInOrder
  <1>e. ASSUME flush'.batch = << >> PROVE BatchInOrder'
    BY <1>e DEF BatchInOrder, IsInjective
  <1>1. ASSUME NEW m \in Msgs, Caller(m) \/ OrphanMark(m)
        PROVE  BatchInOrder'
    <2>1. CASE Enqueue(m) \/ CallCancelled(m)
      <3>1. /\ buf' = buf \/ (buf' = Insert(buf, m, now) /\ call[m] = "enqueue")
            /\ UNCHANGED <<flush, backlog>>
        BY <2>1 DEF Enqueue, CallCancelled
      <3>2. call[m] = "enqueue" => m \notin InBatch \cup backlog
        BY DEF StoredIsSettled, Settled
      <3>3. \A n \in InBatch \cup backlog :
               n \in Pending(buf)' => n \in Pending(buf) /\ buf'[n] = buf[n]
        <4>1. \A n \in Msgs : n # m => Insert(buf, m, now)[n] = buf[n]
          BY <1>t, InsertFacts
        <4>2. \A n \in InBatch \cup backlog : buf'[n] = buf[n]
          BY <1>t, <1>m, <3>1, <3>2, <4>1
        <4>3. QED
          BY <4>2 DEF Pending
      <3>4. QED
        BY <1>f, <3>1, <3>3
    <2>2. CASE OrphanMark(m)
      <3>1. \A n \in Msgs : n \in Pending(buf)' => n \in Pending(buf) /\ buf'[n] = buf[n]
        BY <1>t, <2>2, MarkFacts DEF OrphanMark, Pending
      <3>2. QED
        BY <1>t, <1>m, <1>f, <2>2, <3>1 DEF OrphanMark
    <2>3. CASE SendDirect(m) \/ SendRefused(m) \/ Drained(m) \/ EnqueueFails(m)
      BY <1>f, <2>3 DEF SendDirect, SendRefused, Drained, EnqueueFails, Pending
    <2>4. QED
      BY <1>1, <2>1, <2>2, <2>3 DEF Caller
  <1>2. CASE Flush
    <2>1. CASE FlushSelect
      <3>1. /\ flush'.batch \in Batches(buf, BatchSize) /\ IsInjective(flush'.batch)
            /\ UNCHANGED <<buf, backlog>>
        BY <2>1, SelectFacts DEF FlushSelect
      <3>2. /\ \A i, j \in DOMAIN flush'.batch :
                  i < j => buf[flush'.batch[i]].at <= buf[flush'.batch[j]].at
            /\ \A m \in Pending(buf) \ Range(flush'.batch), i \in DOMAIN flush'.batch :
                  buf[flush'.batch[i]].at <= buf[m].at
        BY <3>1 DEF Batches
      <3>3. QED
        BY <3>1, <3>2 DEF BatchInOrder, InBatch, Pending
    <2>2. CASE FlushSend \/ FlushDrained
      <3>1. flush'.batch = flush.batch /\ UNCHANGED <<buf, backlog>>
        BY <2>2 DEF FlushSend, FlushDrained, TypeOK
      <3>2. QED
        BY <1>f, <3>1 DEF Pending
    <2>3. CASE FlushInterrupted \/ FlushDbError
      BY <1>e, <2>3 DEF FlushInterrupted, FlushDbError
    <2>4. CASE FlushMark
      <3> DEFINE rest == Tail(flush.batch)
      <3>1. TypeOK /\ flush.batch # << >>
        BY <2>4 DEF FlushMark, FlushOnlyWhileServing
      <3>2. flush'.batch = rest /\ UNCHANGED backlog
        BY <2>4 DEF FlushMark, AfterMark
      <3>3. \A n \in Msgs : n \in Pending(buf)' =>
               n \in Pending(buf) /\ buf'[n] = buf[n] /\ n # NextMsg
        BY <1>t, <2>4, <3>1, TailFacts, MarkFacts DEF FlushMark, Pending
      <3>4. /\ \A i \in DOMAIN rest : i + 1 \in DOMAIN flush.batch /\ rest[i] = flush.batch[i + 1]
            /\ \A m \in InBatch : m # NextMsg => m \in Range(rest)
        BY <3>1, TailFacts
      <3>5. DOMAIN rest \subseteq Nat
        <4>1. rest \in Seq(Msgs)
          BY <1>t, <3>1
        <4>2. QED
          BY <4>1
      <3>6. InBatch' = Range(rest)
        BY <3>2 DEF InBatch
      <3> HIDE DEF rest
      <3>7. IsInjective(rest)
        BY <1>0, <3>4, <3>5 DEF BatchInOrder, IsInjective
      <3>8. ASSUME NEW i \in DOMAIN rest, NEW j \in DOMAIN rest, i < j,
                   rest[i] \in Pending(buf)', rest[j] \in Pending(buf)'
            PROVE  buf'[rest[i]].at <= buf'[rest[j]].at
        <4>1. /\ i + 1 \in DOMAIN flush.batch /\ j + 1 \in DOMAIN flush.batch
              /\ i + 1 < j + 1
              /\ rest[i] = flush.batch[i + 1] /\ rest[j] = flush.batch[j + 1]
          BY <3>4, <3>5, <3>8
        <4>2. /\ rest[i] \in Pending(buf) /\ buf'[rest[i]] = buf[rest[i]]
              /\ rest[j] \in Pending(buf) /\ buf'[rest[j]] = buf[rest[j]]
          BY <1>m, <3>3, <3>8, <4>1
        <4>3. QED
          BY <1>0, <4>1, <4>2 DEF BatchInOrder
      <3>9. ASSUME NEW i \in DOMAIN rest, NEW m \in backlog,
                   rest[i] \in Pending(buf)', m \in Pending(buf)' \ Range(rest)
            PROVE  buf'[rest[i]].at <= buf'[m].at
        <4>1. i + 1 \in DOMAIN flush.batch /\ rest[i] = flush.batch[i + 1]
          BY <3>4
        <4>2. /\ rest[i] \in Pending(buf) /\ buf'[rest[i]] = buf[rest[i]]
              /\ m \in Pending(buf) /\ buf'[m] = buf[m] /\ m \notin InBatch
          BY <1>t, <1>m, <3>3, <3>4, <3>9, <4>1
        <4>3. QED
          BY <1>0, <4>1, <4>2 DEF BatchInOrder
      <3>10. QED
        BY <3>2, <3>6, <3>7, <3>8, <3>9 DEF BatchInOrder
    <2>5. QED
      BY <1>2, <2>1, <2>2, <2>3, <2>4 DEF Flush
  <1>3. CASE Environment
    <2>1. CASE CleanupRun
      <3>1. \A n \in Msgs : n \in Pending(buf)' => n \in Pending(buf) /\ buf'[n] = buf[n]
        BY <1>t, <2>1, CleanupFacts DEF CleanupRun, Pending
      <3>2. QED
        BY <1>t, <1>m, <1>f, <2>1, <3>1 DEF CleanupRun
    <2>2. CASE Crash
      BY <1>e, <2>2 DEF Crash, NoFlush
    <2>3. CASE (\E t \in 0..MaxTime : SetClock(t)) \/ ServerReceives \/ LinkBreaks \/ LinkClosed
      BY <1>f, <2>3 DEF SetClock, ServerReceives, LinkBreaks, LinkClosed, Pending
    <2>4. QED
      BY <1>3, <2>1, <2>2, <2>3 DEF Environment
  <1>4. ASSUME NEW why, LeaveServing(why)
        PROVE  BatchInOrder'
    BY <1>e, <1>4 DEF LeaveServing, NoFlush
  <1>5. CASE Client
    <2>1. CASE Connect
      BY <1>e, <2>1 DEF Connect
    <2>2. CASE ConnectFails \/ DelayExpires
      BY <1>f, <2>2 DEF ConnectFails, DelayExpires, Pending
    <2>3. CASE ReceiveLoopEnds \/ ReceiveLoopFails
      BY <2>3, <1>4 DEF ReceiveLoopEnds, ReceiveLoopFails
    <2>4. CASE FinishClosing
      BY <1>f, <2>4 DEF FinishClosing, Disconnect, DropConnection, Pending
    <2>5. CASE Stop
      <3>1. CASE LeaveServing("cancelled")
        BY <3>1, <1>4
      <3>2. CASE ~LeaveServing("cancelled")
        BY <1>f, <2>5, <3>2 DEF Stop, Pending
      <3>3. QED
        BY <3>1, <3>2
    <2>6. QED
      BY <1>5, <2>1, <2>2, <2>3, <2>4, <2>5 DEF Client
  <1>6. CASE UNCHANGED vars
    BY <1>f, <1>6 DEF vars, Pending
  <1>7. QED
    BY <1>1, <1>2, <1>3, <1>5, <1>6 DEF Next

-------------------------------------------------------------------------------
LEMMA InitInv == Init => IInv
  <1> SUFFICES ASSUME Init PROVE IInv
    OBVIOUS
  <1>1. TypeOK
    BY InitType DEF TypeInv
  <1>2. /\ flush = NoFlush /\ InBatch = {} /\ log = << >> /\ orphans = {} /\ backlog = {}
        /\ \A m \in Msgs : buf[m].st = "absent" /\ call[m] = "idle"
        /\ wrote = {} /\ expired = {} /\ link = "down" /\ client = "connect" /\ stopping = FALSE
    BY DEF Init, NoFlush, InBatch, Range, EmptyTable, NoRow
  <1>3. IdleIsUnwritten /\ StoredIsSettled /\ BatchIsKnown /\ MarkFollowsWrite
    BY <1>2 DEF IdleIsUnwritten, StoredIsSettled, BatchIsKnown, MarkFollowsWrite, SentRowWasWritten, NoFlush
  <1>4. FlushOnlyWhileServing /\ LinkFollowsClient /\ DrainingWasWritten /\ StopIsFinal
    BY <1>2 DEF FlushOnlyWhileServing, FlushActive, NoFlush, LinkFollowsClient, Connected,
                DrainingWasWritten, StopIsFinal
  <1>5. LogIsWritten /\ NothingDropped /\ NothingToRepeat /\ WrittenOncePerConnection
    BY <1>2 DEF LogIsWritten, NothingDropped, NothingToRepeat, LinkUsable,
                WrittenOncePerConnection, IsInjective
  <1>6. BatchInOrder
    BY <1>2 DEF BatchInOrder, IsInjective, NoFlush
  <1>7. QED
    BY <1>1, <1>3, <1>4, <1>5, <1>6 DEF IInv

LEMMA NextInv == IInv /\ [Next]_vars => IInv'
  <1> SUFFICES ASSUME IInv, [Next]_vars PROVE IInv'
    OBVIOUS
  <1>1. TypeInv
    BY DEF IInv, TypeInv, BatchInHand, FlushOnlyWhileServing
  <1>2. TypeOK'
    BY <1>1, NextType DEF TypeInv
  <1>3. QED
    BY <1>2, ControlStep, FlushStep, CallStep, StoredStep, KnownStep, MarkStep, DroppedStep,
       LogStep, RepeatStep, OrderStep
    DEF IInv

(* The state of the uplink is never one its parts disagree about: see the  *)
(* conjuncts of IInv.                                                      *)
THEOREM Invariance == Spec => []IInv
  <1>1. QED
    BY InitInv, NextInv, PTL DEF Spec

(* _flush_buffer marks a row only after ws.send has returned, and this     *)
(* survives cancelled tasks, threads that outlive them, and crashes.       *)
THEOREM SentRowsAreWritten == Spec => []SentRowWasWritten
  <1>1. IInv => SentRowWasWritten
    BY DEF IInv, MarkFollowsWrite
  <1>2. QED
    BY <1>1, Invariance, PTL

(* send_or_buffer never returns having neither written nor stored.         *)
THEOREM NothingIsDropped == Spec => []NothingDropped
  <1>1. IInv => NothingDropped
    BY DEF IInv
  <1>2. QED
    BY <1>1, Invariance, PTL

(* No message is written twice to the same connection.                     *)
THEOREM NoRepetition == Spec => []WrittenOncePerConnection
  <1>1. IInv => WrittenOncePerConnection
    BY DEF IInv
  <1>2. QED
    BY <1>1, Invariance, PTL

(* After stop() no further attempt is made and no connection is served.    *)
THEOREM StopHolds == Spec => []StopIsFinal
  <1>1. IInv => StopIsFinal
    BY DEF IInv
  <1>2. QED
    BY <1>1, Invariance, PTL

(* The backlog of a connection is flushed oldest first.                    *)
THEOREM FlushOrder == Spec => []BacklogOldestFirst
  <1>1. ASSUME IInv PROVE BacklogOldestFirst
    <2> SUFFICES ASSUME flush.pc = "send", NextMsg \in Pending(buf),
                        NEW m \in backlog \cap Pending(buf)
                 PROVE  buf[NextMsg].at <= buf[m].at
      BY DEF BacklogOldestFirst
    <2>1. TypeOK /\ flush.batch # << >> /\ BatchInOrder
      BY <1>1 DEF IInv, FlushOnlyWhileServing
    <2>2. NextMsg = flush.batch[1] /\ 1 \in DOMAIN flush.batch
      BY <2>1, TailFacts
    <2>3. CASE m \in InBatch
      <3>1. PICK j \in DOMAIN flush.batch : m = flush.batch[j]
        BY <2>3 DEF InBatch, Range
      <3>2. j = 1 \/ 1 < j
        <4>1. flush.batch \in Seq(Msgs)
          BY <2>1 DEF TypeOK
        <4>2. QED
          BY <4>1
      <3>3. buf[m].at \in Nat
        BY <2>1 DEF TypeOK, Pending, Rows
      <3>4. QED
        BY <2>1, <2>2, <3>1, <3>2, <3>3 DEF BatchInOrder
    <2>4. CASE m \notin InBatch
      BY <2>1, <2>2, <2>4 DEF BatchInOrder
    <2>5. QED
      BY <2>3, <2>4
  <1>2. QED
    BY <1>1, Invariance, PTL
===============================================================================
