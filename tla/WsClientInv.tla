------------------------------ MODULE WsClientInv ------------------------------
(***************************************************************************)
(* The inductive invariant of WsClient: what the safety properties need to *)
(* be true of the states in between, one conjunct per idea.  WsClientProofs*)
(* proves it; the safety run of MCWsClient checks it first.                *)
(***************************************************************************)
EXTENDS WsClient

(* send_or_buffer has nothing left to do for these. *)
Settled == {m \in Msgs : call[m] \in {"done", "failed"}}

InBatch == Range(flush.batch)

(* A message is created for one call, so nothing is known of it before. *)
IdleIsUnwritten == \A m \in Msgs : call[m] = "idle" => m \notin wrote

(* A call ends as its INSERT commits: whatever is or was read from the     *)
(* table belongs to a call that has ended.                                 *)
StoredIsSettled ==
    /\ \A m \in Msgs : buf[m].st # "absent" => m \in Settled
    /\ InBatch \subseteq Settled
    /\ expired \subseteq Settled
    /\ backlog \subseteq Settled

(* A message in the hands of the flush has left the table only by having   *)
(* been written or by having grown too old.                                *)
BatchIsKnown == InBatch \subseteq wrote \cup Pending(buf) \cup expired

(* Whatever is, or may yet be, marked as sent has been written. *)
MarkFollowsWrite ==
    /\ SentRowWasWritten
    /\ orphans \subseteq wrote
    /\ flush.pc \in {"drain", "mark"} => NextMsg \in wrote

(* The flush task lives inside the connection it was created for, and      *)
(* holds a batch exactly between two SELECTs.                              *)
FlushOnlyWhileServing ==
    /\ FlushActive => client = "serve"
    /\ flush.pc \in {"send", "drain", "mark"} <=> flush.batch # << >>

LinkFollowsClient == link = "down" <=> ~Connected

DrainingWasWritten ==
    \A m \in Msgs : call[m] = "drain" => m \in wrote /\ LinkUsable

LogIsWritten == \A i \in DOMAIN log : log[i] \in wrote \cup {Sync}

(* Nothing that the running flush may still write, and nothing on its way  *)
(* into the table, is on the current connection already, except the head   *)
(* of the batch between its write and its mark.                            *)
NothingToRepeat ==
    LinkUsable =>
        \A i \in DOMAIN log :
            /\ \A m \in Msgs : call[m] = "enqueue" => log[i] # m
            /\ FlushActive /\ log[i] \in Pending(buf) \cup InBatch =>
                  flush.pc \in {"drain", "mark"} /\ log[i] = NextMsg

(* The batch has no repetitions and is in the order of created_at, and no  *)
(* younger message overtakes the backlog; rows that are not pending any    *)
(* more have lost their created_at and are left out.                       *)
BatchInOrder ==
    /\ IsInjective(flush.batch)
    /\ \A i, j \in DOMAIN flush.batch :
          i < j /\ flush.batch[i] \in Pending(buf) /\ flush.batch[j] \in Pending(buf)
             => buf[flush.batch[i]].at <= buf[flush.batch[j]].at
    /\ \A i \in DOMAIN flush.batch, m \in backlog :
          flush.batch[i] \in Pending(buf) /\ m \in Pending(buf) \ InBatch
             => buf[flush.batch[i]].at <= buf[m].at

IInv ==
    /\ TypeOK
    /\ IdleIsUnwritten
    /\ StoredIsSettled
    /\ BatchIsKnown
    /\ MarkFollowsWrite
    /\ FlushOnlyWhileServing
    /\ LinkFollowsClient
    /\ DrainingWasWritten
    /\ LogIsWritten
    /\ NothingDropped
    /\ NothingToRepeat
    /\ WrittenOncePerConnection
    /\ BatchInOrder
    /\ StopIsFinal
===============================================================================
