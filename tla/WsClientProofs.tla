---------------------------- MODULE WsClientProofs ----------------------------
(***************************************************************************)
(* Theorems about WsClient, for every set of messages, every batch size,   *)
(* every age limit and every value of the bounds.                          *)
(***************************************************************************)
EXTENDS WsClientInv, TLAPS

(* What a SELECT returns is a sequence of pending ids, each once.          *)
LEMMA BatchShape ==
    ASSUME NEW tbl, NEW batch \in Batches(tbl, BatchSize)
    PROVE  /\ batch \in Seq(Msgs)
           /\ \A i \in DOMAIN batch : batch[i] \in Pending(tbl)
           /\ IsInjective(batch)
  <1>1. PICK n \in 0..BatchSize : batch \in [1..n -> Pending(tbl)]
    BY DEF Batches, SeqOf
  <1>2. Pending(tbl) \subseteq Msgs
    BY DEF Pending
  <1>3. n \in Nat
    BY BatchAssumption
  <1>4. QED
    BY <1>1, <1>2, <1>3 DEF Batches

(* The delay between attempts stays in its range.                          *)
LEMMA BackoffInRange ==
    ASSUME NEW b \in BackoffMin..BackoffMax
    PROVE  NextBackoff(b) \in BackoffMin..BackoffMax
  <1>1. b \in Nat /\ BackoffFactor \in Nat /\ BackoffFactor >= 1 /\ b >= BackoffMin
    BY BackoffAssumption
  <1>2. b * BackoffFactor \in Nat /\ b * BackoffFactor >= b
    BY <1>1
  <1>3. QED
    BY <1>1, <1>2, BackoffAssumption DEF NextBackoff

-------------------------------------------------------------------------------
(***************************************************************************)
(* Types.  NextMsg is a message only because a flush that is past its      *)
(* SELECT holds a batch that is not empty: that is all TypeOK lacks to be  *)
(* inductive.                                                              *)
(***************************************************************************)
BatchInHand == flush.pc \in {"send", "drain", "mark"} => flush.batch # << >>
TypeInv     == TypeOK /\ BatchInHand

LEMMA NextMsgType ==
    ASSUME TypeInv, flush.pc \in {"send", "drain", "mark"}
    PROVE  /\ NextMsg \in Msgs
           /\ NextMsg = flush.batch[1]
           /\ Len(flush.batch) >= 1
           /\ Tail(flush.batch) \in Seq(Msgs)
           /\ AfterMark(flush.batch) \in [pc : FlushStates, batch : Seq(Msgs)]
  <1>1. flush.batch \in Seq(Msgs) /\ flush.batch # << >>
    BY DEF TypeInv, TypeOK, BatchInHand
  <1>2. NextMsg \in Msgs /\ NextMsg = flush.batch[1] /\ Len(flush.batch) >= 1
    BY <1>1 DEF NextMsg
  <1>3. Tail(flush.batch) \in Seq(Msgs)
    BY <1>1
  <1>4. QED
    BY <1>2, <1>3 DEF AfterMark, FlushStates

LEMMA TableTypes ==
    ASSUME NEW tbl \in [Msgs -> Rows], NEW m \in Msgs, NEW t \in Nat
    PROVE  /\ Insert(tbl, m, t) \in [Msgs -> Rows]
           /\ MarkSent(tbl, m, t) \in [Msgs -> Rows]
           /\ Cleanup(tbl, t) \in [Msgs -> Rows]
  <1>1. NoRow \in Rows
    BY DEF NoRow, Rows
  <1>2. /\ [st |-> "pending", at |-> t] \in Rows
        /\ [st |-> "sent", at |-> t] \in Rows
    BY DEF Rows
  <1>3. QED
    BY <1>1, <1>2 DEF Insert, MarkSent, Cleanup

LEMMA LeaveServingType ==
    ASSUME TypeInv, NEW why \in {"returned", "raised", "cancelled"},
           LeaveServing(why), stopping' \in BOOLEAN
    PROVE  TypeInv'
  <1>1. flush' = NoFlush /\ NoFlush \in [pc : FlushStates, batch : Seq(Msgs)]
    BY DEF LeaveServing, NoFlush, FlushStates
  <1>2. BatchInHand'
    BY <1>1 DEF BatchInHand, NoFlush
  <1>3. CASE FlushActive
    <2>1. orphans' \subseteq Msgs
      BY <1>3, NextMsgType DEF LeaveServing, TypeInv, TypeOK
    <2>2. QED
      BY <1>1, <1>2, <1>3, <2>1
      DEF LeaveServing, TypeInv, TypeOK, boundVars, linkVars
  <1>4. CASE ~FlushActive
    <2>1. call' \in [Msgs -> CallStates]
      BY <1>4 DEF LeaveServing, Disconnect, DropConnection, DrainRaises,
                  TypeInv, TypeOK, CallStates
    <2>2. QED
      BY <1>1, <1>2, <1>4, <2>1, BackoffAssumption
      DEF LeaveServing, Disconnect, DropConnection, TypeInv, TypeOK, boundVars,
          LinkStates
  <1>5. QED
    BY <1>3, <1>4

LEMMA InitType == Init => TypeInv
  <1>1. EmptyTable \in [Msgs -> Rows]
    BY DEF EmptyTable, NoRow, Rows
  <1>2. NoFlush \in [pc : FlushStates, batch : Seq(Msgs)]
    BY DEF NoFlush, FlushStates
  <1>3. SUFFICES ASSUME Init PROVE TypeOK /\ BatchInHand
    BY DEF TypeInv
  <1>4. BatchInHand
    BY <1>3 DEF Init, BatchInHand, NoFlush
  <1>5. log \in Seq(Msgs \cup {Sync}) /\ got \in 0..Len(log)
    BY <1>3 DEF Init
  <1>6. backoff \in BackoffMin..BackoffMax /\ now \in 0..MaxTime
        /\ conns \in 0..MaxConns /\ crashes \in 0..MaxCrashes
    BY <1>3, BackoffAssumption, BoundsAssumption DEF Init
  <1>7. call \in [Msgs -> CallStates] /\ link \in LinkStates
    BY <1>3 DEF Init, CallStates, LinkStates
  <1>8. buf \in [Msgs -> Rows] /\ flush \in [pc : FlushStates, batch : Seq(Msgs)]
    BY <1>1, <1>2, <1>3 DEF Init
  <1>9. /\ client \in {"connect", "serve", "closing", "delay", "stopped"}
        /\ outcome \in {"none", "returned", "raised", "cancelled"}
        /\ stopping \in BOOLEAN
        /\ orphans \subseteq Msgs /\ wrote \subseteq Msgs /\ delivered \subseteq Msgs
        /\ expired \subseteq Msgs /\ backlog \subseteq Msgs
    BY <1>3 DEF Init
  <1>10. TypeOK
    BY <1>5, <1>6, <1>7, <1>8, <1>9 DEF TypeOK
  <1>11. QED
    BY <1>4, <1>10

LEMMA NextType == TypeInv /\ [Next]_vars => TypeInv'
  <1> SUFFICES ASSUME TypeInv, [Next]_vars PROVE TypeInv'
    OBVIOUS
  <1> USE DEF TypeInv, BatchInHand, linkVars, boundVars, clientVars, historyVars
  <1>t. now \in Nat /\ MaxTime \in Nat
    BY BoundsAssumption DEF TypeOK
  <1>c. ASSUME NEW m \in Msgs, Caller(m) PROVE TypeInv'
    <2>1. CASE SendDirect(m)
      <3>1. log' \in Seq(Msgs \cup {Sync}) /\ Len(log') = Len(log) + 1
        BY <2>1 DEF SendDirect, TypeOK
      <3>2. QED
        BY <2>1, <3>1 DEF SendDirect, TypeOK, CallStates
    <2>2. CASE SendRefused(m) \/ Drained(m) \/ EnqueueFails(m)
      BY <2>2 DEF SendRefused, Drained, EnqueueFails, TypeOK, CallStates
    <2>3. CASE Enqueue(m) \/ CallCancelled(m)
      <3>1. buf' \in {buf, Insert(buf, m, now)}
        BY <2>3 DEF Enqueue, CallCancelled
      <3>2. Insert(buf, m, now) \in [Msgs -> Rows] /\ buf \in [Msgs -> Rows]
        BY <1>t, TableTypes DEF TypeOK
      <3>3. QED
        BY <2>3, <3>1, <3>2 DEF Enqueue, CallCancelled, TypeOK, CallStates
    <2>4. QED
      BY <1>c, <2>1, <2>2, <2>3 DEF Caller
  <1>1. CASE Connect
    BY <1>1, BoundsAssumption DEF Connect, TypeOK, FlushStates, LinkStates, Pending
  <1>2. CASE ConnectFails
    BY <1>2 DEF ConnectFails, TypeOK
  <1>3. CASE ReceiveLoopEnds
    BY <1>3, LeaveServingType DEF ReceiveLoopEnds, TypeOK
  <1>4. CASE ReceiveLoopFails
    BY <1>4, LeaveServingType DEF ReceiveLoopFails, TypeOK
  <1>5. CASE FinishClosing
    BY <1>5, BackoffAssumption
    DEF FinishClosing, Disconnect, DropConnection, DrainRaises, TypeOK, CallStates, LinkStates
  <1>6. CASE DelayExpires
    BY <1>6, BackoffInRange DEF DelayExpires, TypeOK
  <1>7. CASE Stop
    <2>1. CASE LeaveServing("cancelled")
      BY <1>7, <2>1, LeaveServingType DEF Stop
    <2>2. CASE ~LeaveServing("cancelled")
      BY <1>7, <2>2 DEF Stop, TypeOK
    <2>3. QED
      BY <2>1, <2>2
  <1>8. CASE FlushSelect
    <2>1. PICK batch \in Batches(buf, BatchSize) :
            flush' = [pc |-> IF batch = << >> THEN "done" ELSE "send", batch |-> batch]
      BY <1>8 DEF FlushSelect
    <2>2. batch \in Seq(Msgs)
      BY BatchShape
    <2>3. QED
      BY <1>8, <2>1, <2>2 DEF FlushSelect, TypeOK, FlushStates
  <1>9. CASE FlushSend
    <2>1. NextMsg \in Msgs
      BY <1>9, NextMsgType DEF FlushSend
    <2>2. log' \in Seq(Msgs \cup {Sync}) /\ Len(log') = Len(log) + 1
      BY <1>9, <2>1 DEF FlushSend, TypeOK
    <2>3. QED
      BY <1>9, <2>1, <2>2 DEF FlushSend, TypeOK, FlushStates
  <1>10. CASE FlushDrained
    BY <1>10 DEF FlushDrained, TypeOK, FlushStates
  <1>11. CASE FlushInterrupted \/ FlushDbError
    <2>1. [pc |-> "dead", batch |-> << >>] \in [pc : FlushStates, batch : Seq(Msgs)]
      BY DEF FlushStates
    <2>2. QED
      BY <1>11, <2>1 DEF FlushInterrupted, FlushDbError, TypeOK, FlushStates
  <1>12. CASE FlushMark
    <2>1. flush' \in [pc : FlushStates, batch : Seq(Msgs)] /\ NextMsg \in Msgs
      BY <1>12, NextMsgType DEF FlushMark
    <2>2. buf' \in [Msgs -> Rows]
      BY <1>12, <1>t, <2>1, TableTypes DEF FlushMark, TypeOK
    <2>3. BatchInHand'
      BY <1>12 DEF FlushMark, AfterMark
    <2>4. QED
      BY <1>12, <2>1, <2>2, <2>3 DEF FlushMark, TypeOK
  <1>13. ASSUME NEW m \in Msgs, OrphanMark(m) PROVE TypeInv'
    <2>1. buf' \in [Msgs -> Rows]
      BY <1>13, <1>t, TableTypes DEF OrphanMark, TypeOK
    <2>2. QED
      BY <1>13, <2>1 DEF OrphanMark, TypeOK
  <1>14. CASE CleanupRun
    <2>1. buf' \in [Msgs -> Rows]
      BY <1>14, <1>t DEF CleanupRun, TypeOK, Cleanup, NoRow, Rows
    <2>2. QED
      BY <1>14, <2>1 DEF CleanupRun, TypeOK, Pending
  <1>15. ASSUME NEW t \in 0..MaxTime, SetClock(t) PROVE TypeInv'
    BY <1>15 DEF SetClock, TypeOK
  <1>16. CASE ServerReceives
    <2>1. log[got + 1] \in Msgs \cup {Sync}
      BY <1>16 DEF ServerReceives, TypeOK
    <2>2. QED
      BY <1>16, <2>1 DEF ServerReceives, TypeOK
  <1>17. CASE LinkBreaks
    BY <1>17 DEF LinkBreaks, TypeOK, LinkStates
  <1>18. CASE LinkClosed
    BY <1>18 DEF LinkClosed, DrainRaises, TypeOK, LinkStates, CallStates
  <1>19. CASE Crash
    <2>1. NoFlush \in [pc : FlushStates, batch : Seq(Msgs)] /\ BatchInHand'
      BY <1>19 DEF Crash, NoFlush, FlushStates
    <2>2. call' \in [Msgs -> CallStates] /\ crashes' \in 0..MaxCrashes
      BY <1>19, BoundsAssumption DEF Crash, TypeOK, CallStates
    <2>3. log' \in Seq(Msgs \cup {Sync}) /\ got' \in 0..Len(log')
      BY <1>19 DEF Crash
    <2>4. backoff' \in BackoffMin..BackoffMax /\ link' \in LinkStates
      BY <1>19, BackoffAssumption DEF Crash, LinkStates
    <2>5. /\ buf' \in [Msgs -> Rows] /\ flush' \in [pc : FlushStates, batch : Seq(Msgs)]
          /\ now' \in 0..MaxTime /\ conns' \in 0..MaxConns
          /\ wrote' \subseteq Msgs /\ delivered' \subseteq Msgs /\ expired' \subseteq Msgs
      BY <1>19, <2>1 DEF Crash, TypeOK
    <2>6. /\ client' \in {"connect", "serve", "closing", "delay", "stopped"}
          /\ outcome' \in {"none", "returned", "raised", "cancelled"}
          /\ stopping' \in BOOLEAN
          /\ orphans' \subseteq Msgs /\ backlog' \subseteq Msgs
      BY <1>19 DEF Crash
    <2>7. TypeOK'
      BY <2>2, <2>3, <2>4, <2>5, <2>6 DEF TypeOK
    <2>8. QED
      BY <2>1, <2>7
  <1>20. CASE UNCHANGED vars
    BY <1>20 DEF vars, TypeOK
  <1>21. QED
    BY <1>c, <1>1, <1>2, <1>3, <1>4, <1>5, <1>6, <1>7, <1>8, <1>9, <1>10, <1>11, <1>12,
       <1>13, <1>14, <1>15, <1>16, <1>17, <1>18, <1>19, <1>20
    DEF Next, Client, Flush, Environment

(* Every variable keeps its type, and the reconnect delay never leaves its *)
(* range, whatever the bounds.                                             *)
THEOREM TypeCorrect == Spec => []TypeInv
  <1>1. QED
    BY InitType, NextType, PTL DEF Spec

THEOREM TypeOKHolds == Spec => []TypeOK
  <1>1. TypeInv => TypeOK
    BY DEF TypeInv
  <1>2. QED
    BY <1>1, TypeCorrect, PTL
===============================================================================
