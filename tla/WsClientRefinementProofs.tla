----------------------- MODULE WsClientRefinementProofs -----------------------
(***************************************************************************)
(* WsClient implements StoreAndForward: each of its steps is, through      *)
(* phaseOf and sinceOf, a step of the abstract store or none at all.       *)
(***************************************************************************)
EXTENDS WsClientSafetyProofs

(* Where a message is, case by case. *)
LEMMA PhaseFacts ==
    ASSUME IInv, NEW m \in Msgs
    PROVE  /\ m \in wrote <=> phaseOf[m] = "sent"
           /\ phaseOf[m] = "stored" <=> m \notin wrote /\ m \in Pending(buf)
           /\ phaseOf[m] = "expired" <=>
                 m \notin wrote /\ m \notin Pending(buf) /\ m \in expired
           /\ call[m] = "idle" => phaseOf[m] = "new"
           /\ call[m] = "enqueue" => phaseOf[m] = IF m \in wrote THEN "sent" ELSE "held"
           /\ sinceOf[m] = IF phaseOf[m] = "stored" THEN buf[m].at ELSE 0
  <1>1. call[m] \in {"idle", "enqueue"} => m \notin Pending(buf) /\ m \notin expired
    BY DEF IInv, StoredIsSettled, Settled, Pending
  <1>2. phaseOf[m] = IF m \in wrote THEN "sent"
                     ELSE IF m \in Pending(buf) THEN "stored"
                     ELSE IF m \in expired THEN "expired" ELSE PhaseOfCall(m)
    BY DEF phaseOf
  <1>3. sinceOf[m] = IF phaseOf[m] = "stored" THEN buf[m].at ELSE 0
    BY DEF sinceOf
  <1>4. call[m] = "idle" => m \notin wrote
    BY DEF IInv, IdleIsUnwritten
  <1>5. QED
    BY <1>1, <1>2, <1>3, <1>4 DEF PhaseOfCall

(* What leaves a message where it is: once it has been written nothing     *)
(* moves it any more, until then the table, the cleanup and its call count. *)
Untouched(m) ==
    /\ m \in wrote' <=> m \in wrote
    /\ m \notin wrote =>
          /\ buf'[m] = buf[m]
          /\ m \in expired' <=> m \in expired
          /\ call'[m] = call[m]

LEMMA UntouchedStays ==
    ASSUME NEW m \in Msgs, Untouched(m)
    PROVE  phaseOf'[m] = phaseOf[m] /\ sinceOf'[m] = sinceOf[m]
  <1>1. CASE m \in wrote
    BY <1>1 DEF Untouched, phaseOf, sinceOf
  <1>2. CASE m \notin wrote
    BY <1>2 DEF Untouched, phaseOf, sinceOf, Pending, PhaseOfCall
  <1>3. QED
    BY <1>1, <1>2

(* If every message stays, the step is a stutter; if one moves, the        *)
(* abstract functions change in one place.                                 *)
LEMMA Stutter ==
    ASSUME \A m \in Msgs : Untouched(m), now' = now
    PROVE  UNCHANGED Store!vars
  <1>1. phaseOf' = phaseOf
    <2>1. \A m \in Msgs : phaseOf'[m] = phaseOf[m]
      BY UntouchedStays
    <2>2. QED
      BY <2>1 DEF phaseOf
  <1>2. sinceOf' = sinceOf
    <2>1. \A m \in Msgs : sinceOf'[m] = sinceOf[m]
      BY UntouchedStays
    <2>2. QED
      BY <2>1 DEF sinceOf
  <1>3. QED
    BY <1>1, <1>2 DEF Store!vars

LEMMA OneMoves ==
    ASSUME NEW m \in Msgs, \A n \in Msgs : n # m => Untouched(n)
    PROVE  /\ phaseOf' = [phaseOf EXCEPT ![m] = phaseOf'[m]]
           /\ sinceOf' = [sinceOf EXCEPT ![m] = sinceOf'[m]]
  <1>1. \A n \in Msgs : n # m => phaseOf'[n] = phaseOf[n] /\ sinceOf'[n] = sinceOf[n]
    BY UntouchedStays
  <1>2. phaseOf' = [phaseOf EXCEPT ![m] = phaseOf'[m]]
    BY <1>1 DEF phaseOf
  <1>3. sinceOf' = [sinceOf EXCEPT ![m] = sinceOf'[m]]
    BY <1>1 DEF sinceOf
  <1>4. QED
    BY <1>2, <1>3

(* A write takes a message from wherever it was held to "sent". *)
LEMMA WriteRefines ==
    ASSUME IInv, NEW m \in Msgs, wrote' = wrote \cup {m},
           phaseOf[m] \in {"new", "stored", "expired", "sent"},
           \A n \in Msgs : n # m => Untouched(n), now' = now
    PROVE  [Store!Next]_(Store!vars)
  <1>1. CASE m \in wrote
    BY <1>1, Stutter DEF Untouched
  <1>2. CASE m \notin wrote
    <2>1. phaseOf'[m] = "sent" /\ sinceOf'[m] = 0
      BY DEF phaseOf, sinceOf
    <2>2. phaseOf[m] \in {"new", "stored", "expired"}
      BY <1>2, PhaseFacts
    <2>3. Store!Send(m)
      BY <2>1, <2>2, OneMoves DEF Store!Send
    <2>4. QED
      BY <2>3 DEF Store!Next
  <1>3. QED
    BY <1>1, <1>2

(* An INSERT stores a message that was not written before. *)
LEMMA InsertRefines ==
    ASSUME IInv, NEW m \in Msgs, call[m] = "enqueue", buf' = Insert(buf, m, now),
           UNCHANGED <<wrote, expired, now>>,
           \A n \in Msgs : n # m => call'[n] = call[n]
    PROVE  [Store!Next]_(Store!vars)
  <1>1. \A n \in Msgs : n # m => buf'[n] = buf[n]
    BY InsertFacts DEF IInv, TypeOK
  <1>2. \A n \in Msgs : n # m => Untouched(n)
    BY <1>1 DEF Untouched
  <1>3. CASE m \in wrote
    BY <1>2, <1>3, Stutter DEF Untouched
  <1>4. CASE m \notin wrote
    <2>1. buf[m].st = "absent"
      BY DEF IInv, StoredIsSettled, Settled
    <2>2. buf'[m] = [st |-> "pending", at |-> now]
      BY <2>1 DEF Insert, IInv, TypeOK
    <2>3. phaseOf'[m] = "stored" /\ sinceOf'[m] = now
      BY <1>4, <2>2 DEF phaseOf, sinceOf, Pending
    <2>4. phaseOf[m] = "held"
      BY <1>4, PhaseFacts
    <2>5. Store!Store(m)
      BY <1>2, <2>3, <2>4, OneMoves DEF Store!Store
    <2>6. QED
      BY <2>5 DEF Store!Next
  <1>5. QED
    BY <1>3, <1>4

(* Calls that give up lose what they hold, unless it was written already.  *)
LEMMA GiveUpRefines ==
    ASSUME IInv, NEW S, S \subseteq Msgs,
           UNCHANGED <<buf, wrote, expired, now>>,
           \A m \in Msgs : m \notin S => call'[m] = call[m],
           \A m \in S : call[m] \in {"drain", "enqueue"} /\ call'[m] = "failed"
    PROVE  [Store!Next]_(Store!vars)
  <1> DEFINE L == S \ wrote
  <1>1. \A m \in Msgs : m \notin L => Untouched(m)
    BY DEF Untouched
  <1>2. \A m \in L : call[m] = "enqueue"
    BY DEF IInv, DrainingWasWritten
  <1>3. \A m \in L : phaseOf[m] = "held" /\ phaseOf'[m] = "lost"
    <2>1. TAKE m \in L
    <2>2. m \in Msgs /\ m \notin wrote /\ call[m] = "enqueue" /\ call'[m] = "failed"
      BY <1>2
    <2>3. phaseOf[m] = "held"
      BY <2>2, PhaseFacts
    <2>4. m \notin Pending(buf) /\ m \notin expired
      BY <2>2, <2>3, PhaseFacts
    <2>5. phaseOf'[m] = "lost"
      BY <2>2, <2>4 DEF phaseOf, PhaseOfCall, Pending
    <2>6. QED
      BY <2>3, <2>5
  <1>4. phaseOf' = [m \in Msgs |-> IF m \in L THEN "lost" ELSE phaseOf[m]]
    <2>1. \A m \in Msgs : phaseOf'[m] = IF m \in L THEN "lost" ELSE phaseOf[m]
      BY <1>1, <1>3, UntouchedStays
    <2>2. QED
      BY <2>1 DEF phaseOf
  <1>5. sinceOf' = sinceOf
    <2>1. ASSUME NEW m \in Msgs PROVE sinceOf'[m] = sinceOf[m]
      <3>1. CASE m \in L
        BY <1>3, <3>1 DEF sinceOf
      <3>2. CASE m \notin L
        BY <1>1, <3>2, UntouchedStays
      <3>3. QED
        BY <3>1, <3>2
    <2>2. QED
      BY <2>1 DEF sinceOf
  <1>6. Store!Lose(L)
    BY <1>3, <1>4, <1>5 DEF Store!Lose
  <1>7. L \in SUBSET Msgs
    OBVIOUS
  <1>8. QED
    BY <1>6, <1>7 DEF Store!Next

(* The cleanup is the abstract expiry. *)
LEMMA CleanupRefines ==
    ASSUME IInv, CleanupRun
    PROVE  [Store!Next]_(Store!vars)
  <1> DEFINE old == {m \in Msgs : phaseOf[m] = "stored" /\ sinceOf[m] < now - MaxAge}
  <1>1. /\ buf' = Cleanup(buf, now)
        /\ expired' = expired \cup {m \in Pending(buf) : Stale(buf[m], now)}
        /\ UNCHANGED <<wrote, call, now>>
    BY DEF CleanupRun, historyVars
  <1>t. buf \in [Msgs -> Rows]
    BY DEF IInv, TypeOK
  <1>2. \A m \in Msgs : m \in old <=> m \notin wrote /\ m \in Pending(buf) /\ Stale(buf[m], now)
    BY PhaseFacts DEF Pending, Stale
  <1>3. ASSUME NEW m \in old
        PROVE  phaseOf'[m] = "expired" /\ sinceOf'[m] = 0
    <2>1. m \in Msgs /\ m \notin wrote /\ m \in Pending(buf) /\ Stale(buf[m], now)
      BY <1>2
    <2>2. m \in expired' /\ buf'[m] = NoRow
      BY <1>1, <2>1 DEF Cleanup
    <2>3. QED
      BY <1>1, <2>1, <2>2 DEF phaseOf, sinceOf, Pending, NoRow
  <1>4. ASSUME NEW m \in Msgs, m \notin old
        PROVE  phaseOf'[m] = phaseOf[m] /\ sinceOf'[m] = sinceOf[m]
    <2>1. CASE m \in wrote
      BY <1>1, <2>1, UntouchedStays DEF Untouched
    <2>2. CASE m \notin wrote
      <3>1. buf[m].st # "sent"
        BY <2>2 DEF IInv, MarkFollowsWrite, SentRowWasWritten
      <3>2. ~Stale(buf[m], now)
        BY <1>t, <1>2, <1>4, <2>2, <3>1 DEF Stale, Pending, Rows
      <3>3. buf'[m] = buf[m] /\ (m \in expired' <=> m \in expired)
        BY <1>1, <3>2 DEF Cleanup
      <3>4. QED
        BY <1>1, <3>3, UntouchedStays DEF Untouched
    <2>3. QED
      BY <2>1, <2>2
  <1>5. phaseOf' = [m \in Msgs |-> IF m \in old THEN "expired" ELSE phaseOf[m]]
    <2>1. \A m \in Msgs : phaseOf'[m] = IF m \in old THEN "expired" ELSE phaseOf[m]
      BY <1>3, <1>4
    <2>2. QED
      BY <2>1 DEF phaseOf
  <1>6. sinceOf' = [m \in Msgs |-> IF m \in old THEN 0 ELSE sinceOf[m]]
    <2>1. \A m \in Msgs : sinceOf'[m] = IF m \in old THEN 0 ELSE sinceOf[m]
      BY <1>3, <1>4
    <2>2. QED
      BY <2>1 DEF sinceOf
  <1>7. Store!Expire
    BY <1>1, <1>5, <1>6 DEF Store!Expire
  <1>8. QED
    BY <1>7 DEF Store!Next

-------------------------------------------------------------------------------
LEMMA InitRefines == Init => Store!Init
  <1> SUFFICES ASSUME Init PROVE Store!Init
    OBVIOUS
  <1>1. \A m \in Msgs : m \notin wrote /\ m \notin Pending(buf) /\ m \notin expired
                          /\ call[m] = "idle"
    BY DEF Init, Pending, EmptyTable, NoRow
  <1>2. phaseOf = [m \in Msgs |-> "new"]
    BY <1>1 DEF phaseOf, PhaseOfCall
  <1>3. sinceOf = [m \in Msgs |-> 0]
    BY <1>2 DEF sinceOf
  <1>4. now \in Nat
    BY DEF Init
  <1>5. QED
    BY <1>2, <1>3, <1>4 DEF Store!Init

LEMMA StepRefines == IInv /\ [Next]_vars => [Store!Next]_(Store!vars)
  <1> SUFFICES ASSUME IInv, [Next]_vars PROVE [Store!Next]_(Store!vars)
    OBVIOUS
  <1> USE DEF clientVars, linkVars, boundVars, historyVars
  <1>t. call \in [Msgs -> CallStates] /\ buf \in [Msgs -> Rows]
    BY DEF IInv, TypeOK
  <1>w. \A m \in Msgs : call[m] = "drain" => m \in wrote
    BY DEF IInv, DrainingWasWritten
  <1>s. ASSUME UNCHANGED <<buf, wrote, expired, now>>,
               \A m \in Msgs : m \notin wrote => call'[m] = call[m]
        PROVE  [Store!Next]_(Store!vars)
    BY <1>s, Stutter DEF Untouched
  <1>r. ASSUME UNCHANGED <<buf, wrote, expired, now>>,
               call' = call \/ call' = DrainRaises
        PROVE  [Store!Next]_(Store!vars)
    BY <1>r, <1>s, <1>w DEF DrainRaises
  <1>k. ASSUME NEW m \in Msgs, m \in wrote, buf' = MarkSent(buf, m, now),
               UNCHANGED <<wrote, expired, now, call>>
        PROVE  [Store!Next]_(Store!vars)
    <2>1. \A n \in Msgs : n # m => buf'[n] = buf[n]
      BY <1>t, <1>k, MarkFacts
    <2>2. QED
      BY <1>k, <2>1, Stutter DEF Untouched
  <1>g. ASSUME NEW m \in Msgs, call[m] \in {"drain", "enqueue"}, call'[m] = "failed",
               \A n \in Msgs : n # m => call'[n] = call[n],
               UNCHANGED <<buf, wrote, expired, now>>
        PROVE  [Store!Next]_(Store!vars)
    <2> DEFINE S == {m}
    <2>1. S \subseteq Msgs
      OBVIOUS
    <2>2. \A n \in Msgs : n \notin S => call'[n] = call[n]
      BY <1>g
    <2>3. \A n \in S : call[n] \in {"drain", "enqueue"} /\ call'[n] = "failed"
      BY <1>g
    <2> HIDE DEF S
    <2>4. QED
      BY <1>g, <2>1, <2>2, <2>3, GiveUpRefines
  <1>1. ASSUME NEW m \in Msgs, Caller(m) PROVE [Store!Next]_(Store!vars)
    <2>1. CASE SendDirect(m)
      <3>1. phaseOf[m] = "new"
        BY <2>1, PhaseFacts DEF SendDirect
      <3>2. \A n \in Msgs : n # m => Untouched(n)
        BY <1>t, <2>1 DEF SendDirect, Untouched
      <3>3. QED
        BY <2>1, <3>1, <3>2, WriteRefines DEF SendDirect
    <2>2. CASE SendRefused(m)
      <3>1. phaseOf[m] = "new" /\ m \notin wrote /\ m \notin Pending(buf) /\ m \notin expired
        BY <2>2, PhaseFacts DEF SendRefused
      <3>2. \A n \in Msgs : n # m => Untouched(n)
        BY <1>t, <2>2 DEF SendRefused, Untouched
      <3>3. call'[m] = "enqueue" /\ UNCHANGED <<buf, wrote, expired, now>>
        BY <1>t, <2>2 DEF SendRefused
      <3>4. phaseOf'[m] = "held"
        BY <3>1, <3>3 DEF phaseOf, PhaseOfCall, Pending
      <3>5. sinceOf'[m] = sinceOf[m]
        BY <3>1, <3>4 DEF sinceOf
      <3>6. sinceOf' = sinceOf
        BY <3>2, <3>5, UntouchedStays DEF sinceOf
      <3>7. Store!Hold(m)
        BY <3>1, <3>2, <3>3, <3>4, <3>6, OneMoves DEF Store!Hold
      <3>8. QED
        BY <3>7 DEF Store!Next
    <2>3. CASE Drained(m)
      BY <1>t, <1>s, <1>w, <2>3 DEF Drained
    <2>4. CASE Enqueue(m)
      BY <1>t, <2>4, InsertRefines DEF Enqueue
    <2>5. CASE EnqueueFails(m)
      <3>1. call'[m] = "failed" /\ \A n \in Msgs : n # m => call'[n] = call[n]
        BY <1>t, <2>5 DEF EnqueueFails
      <3>2. call[m] \in {"drain", "enqueue"} /\ UNCHANGED <<buf, wrote, expired, now>>
        BY <2>5 DEF EnqueueFails
      <3>3. QED
        BY <1>g, <3>1, <3>2
    <2>6. CASE CallCancelled(m)
      <3>1. call'[m] = "failed" /\ \A n \in Msgs : n # m => call'[n] = call[n]
        BY <1>t, <2>6 DEF CallCancelled
      <3>2. CASE buf' = buf
        BY <1>g, <2>6, <3>1, <3>2 DEF CallCancelled
      <3>3. CASE buf' # buf
        BY <2>6, <3>1, <3>3, InsertRefines DEF CallCancelled
      <3>4. QED
        BY <3>2, <3>3
    <2>7. QED
      BY <1>1, <2>1, <2>2, <2>3, <2>4, <2>5, <2>6 DEF Caller
  <1>2. ASSUME NEW m \in Msgs, OrphanMark(m) PROVE [Store!Next]_(Store!vars)
    <2>1. m \in wrote
      BY <1>2 DEF OrphanMark, IInv, MarkFollowsWrite
    <2>2. QED
      BY <1>2, <1>k, <2>1 DEF OrphanMark
  <1>3. CASE Flush
    <2>1. CASE FlushSend
      <3>1. NextMsg \in Msgs /\ NextMsg \in InBatch
        BY <2>1, HeadIsNew
      <3>2. phaseOf[NextMsg] \in {"sent", "stored", "expired"}
        BY <3>1, PhaseFacts DEF IInv, BatchIsKnown
      <3>3. \A n \in Msgs : n # NextMsg => Untouched(n)
        BY <2>1 DEF FlushSend, Untouched
      <3>4. QED
        BY <2>1, <3>1, <3>2, <3>3, WriteRefines DEF FlushSend
    <2>2. CASE FlushMark
      <3>1. NextMsg \in Msgs /\ NextMsg \in wrote
        BY <2>2, TailFacts DEF FlushMark, IInv, FlushOnlyWhileServing, MarkFollowsWrite
      <3>2. QED
        BY <1>k, <2>2, <3>1 DEF FlushMark
    <2>3. CASE FlushSelect \/ FlushDrained \/ FlushInterrupted \/ FlushDbError
      BY <1>r, <2>3 DEF FlushSelect, FlushDrained, FlushInterrupted, FlushDbError
    <2>4. QED
      BY <1>3, <2>1, <2>2, <2>3 DEF Flush
  <1>4. CASE Environment
    <2>1. CASE CleanupRun
      BY <2>1, CleanupRefines
    <2>2. ASSUME NEW t \in 0..MaxTime, SetClock(t) PROVE [Store!Next]_(Store!vars)
      <3>1. phaseOf' = phaseOf /\ sinceOf' = sinceOf
        BY <2>2 DEF SetClock, phaseOf, sinceOf, Pending, PhaseOfCall
      <3>2. now' \in Nat
        BY <2>2 DEF SetClock
      <3>3. Store!SetClock
        BY <3>1, <3>2 DEF Store!SetClock
      <3>4. QED
        BY <3>3 DEF Store!Next
    <2>3. CASE ServerReceives \/ LinkBreaks \/ LinkClosed
      BY <1>r, <2>3 DEF ServerReceives, LinkBreaks, LinkClosed
    <2>4. CASE Crash
      <3> DEFINE S == {m \in Msgs : call[m] \in {"drain", "enqueue"}}
      <3>1. /\ \A m \in Msgs : m \notin S => call'[m] = call[m]
            /\ \A m \in S : call[m] \in {"drain", "enqueue"} /\ call'[m] = "failed"
        BY <2>4 DEF Crash
      <3>2. S \subseteq Msgs /\ UNCHANGED <<buf, wrote, expired, now>>
        BY <2>4 DEF Crash
      <3>3. QED
        BY <3>1, <3>2, GiveUpRefines
    <2>5. QED
      BY <1>4, <2>1, <2>2, <2>3, <2>4 DEF Environment
  <1>5. ASSUME NEW why, LeaveServing(why) PROVE [Store!Next]_(Store!vars)
    BY <1>r, <1>5 DEF LeaveServing, Disconnect, DropConnection
  <1>6. CASE Client
    <2>1. CASE Connect \/ ConnectFails \/ DelayExpires
      BY <1>r, <2>1 DEF Connect, ConnectFails, DelayExpires
    <2>2. CASE ReceiveLoopEnds \/ ReceiveLoopFails
      BY <1>5, <2>2 DEF ReceiveLoopEnds, ReceiveLoopFails
    <2>3. CASE FinishClosing
      BY <1>r, <2>3 DEF FinishClosing, Disconnect, DropConnection
    <2>4. CASE Stop
      BY <1>5, <1>r, <2>4 DEF Stop
    <2>5. QED
      BY <1>6, <2>1, <2>2, <2>3, <2>4 DEF Client
  <1>7. CASE UNCHANGED vars
    BY <1>r, <1>7 DEF vars
  <1>8. QED
    BY <1>1, <1>2, <1>3, <1>4, <1>6, <1>7 DEF Next

(* The client, its buffer and its flush task keep the promise of the       *)
(* abstract store: a stored message leaves the store only by being written *)
(* to a connection or by age, and only a failing INSERT, a cancelled call  *)
(* or a crash loses a message, one that is in neither place.               *)
THEOREM Refinement == Spec => ImplementsStore
  <1>1. QED
    BY InitRefines, StepRefines, Invariance, PTL DEF Spec, ImplementsStore, Store!Spec

-------------------------------------------------------------------------------
(* What the abstract store says of a stored message, said of the table.    *)

(* A step of the abstract store, seen from one message. *)
LEMMA StoreStepOf ==
    ASSUME [Store!Next]_(Store!vars), NEW m \in Msgs
    PROVE  /\ phaseOf[m] = "sent" => phaseOf'[m] = "sent"
           /\ phaseOf[m] = "stored" =>
                 \/ phaseOf'[m] = "sent"
                 \/ phaseOf'[m] = "stored" /\ sinceOf'[m] = sinceOf[m]
                 \/ phaseOf'[m] = "expired" /\ sinceOf[m] < now - MaxAge
  <1>d. /\ phaseOf = [n \in Msgs |-> phaseOf[n]]
        /\ sinceOf = [n \in Msgs |-> sinceOf[n]]
    BY DEF phaseOf, sinceOf
  <1>1. CASE \E n \in Msgs : Store!Hold(n) \/ Store!Send(n) \/ Store!Store(n)
    BY <1>d, <1>1 DEF Store!Hold, Store!Send, Store!Store
  <1>2. CASE \E S \in SUBSET Msgs : Store!Lose(S)
    BY <1>d, <1>2 DEF Store!Lose
  <1>3. CASE Store!Expire
    BY <1>d, <1>3 DEF Store!Expire
  <1>4. CASE Store!SetClock \/ UNCHANGED Store!vars
    BY <1>4 DEF Store!SetClock, Store!vars
  <1>5. QED
    BY <1>1, <1>2, <1>3, <1>4 DEF Store!Next

(* A row of the table waits, with the age it was inserted with, until the  *)
(* flush has written it or the cleanup finds it older than the limit:      *)
(* neither a retry, a reconnect, a late mark nor a crash gives it a new    *)
(* created_at or takes it out.                                             *)
StoredUntilWrittenOrOld ==
    [][\A m \in Pending(buf) :
          \/ m \in wrote'
          \/ m \in Pending(buf)' /\ buf'[m].at = buf[m].at
          \/ m \in expired' /\ buf[m].at < now - MaxAge]_vars

(* What get_pending may still return is written or grows old: nothing else *)
(* removes a message from offline_buffer.py, for any number of messages.   *)
THEOREM BufferedUntilSentOrOld == Spec => StoredUntilWrittenOrOld
  <1> DEFINE Waits(m) ==
        \/ m \in wrote'
        \/ m \in Pending(buf)' /\ buf'[m].at = buf[m].at
        \/ m \in expired' /\ buf[m].at < now - MaxAge
  <1>1. ASSUME IInv, IInv', [Next]_vars, NEW m \in Pending(buf)
        PROVE  Waits(m)
    <2>1. m \in Msgs
      BY DEF Pending
    <2>2. [Store!Next]_(Store!vars)
      BY <1>1, StepRefines
    <2>3. /\ m \in wrote <=> phaseOf[m] = "sent"
          /\ phaseOf[m] = "stored" <=> m \notin wrote
          /\ phaseOf[m] = "stored" => sinceOf[m] = buf[m].at
      BY <1>1, <2>1, PhaseFacts
    <2>4. /\ phaseOf'[m] = "sent" => m \in wrote'
          /\ phaseOf'[m] = "stored" => m \in Pending(buf)' /\ sinceOf'[m] = buf'[m].at
          /\ phaseOf'[m] = "expired" => m \in expired'
      <3>1. phaseOf'[m] = IF m \in wrote' THEN "sent"
                          ELSE IF m \in Pending(buf)' THEN "stored"
                          ELSE IF m \in expired' THEN "expired" ELSE PhaseOfCall(m)'
        BY <2>1 DEF phaseOf
      <3>2. PhaseOfCall(m)' \in {"new", "held", "lost"}
        BY DEF PhaseOfCall
      <3>3. phaseOf'[m] = "stored" => sinceOf'[m] = buf'[m].at
        BY <2>1 DEF sinceOf
      <3>4. QED
        BY <3>1, <3>2, <3>3
    <2>5. QED
      BY <2>1, <2>2, <2>3, <2>4, StoreStepOf
  <1>2. IInv /\ IInv' /\ [Next]_vars => [\A m \in Pending(buf) : Waits(m)]_vars
    BY <1>1
  <1>3. QED
    BY <1>2, Invariance, PTL DEF Spec, StoredUntilWrittenOrOld
===============================================================================
