----------------------------- MODULE CommandsInv -----------------------------
(***************************************************************************)
(* The inductive invariant of Commands, one conjunct per idea.             *)
(***************************************************************************)
EXTENDS Commands

(* Frames wait in the order of issue, all of them newer than whatever was  *)
(* dispatched before.                                                      *)
InboxInOrder ==
    /\ Increasing(inbox)
    /\ \A i \in DOMAIN inbox : inbox[i] <= issued
    /\ \A i \in DOMAIN handled, j \in DOMAIN inbox : handled[i] < inbox[j]

(* A replay starts behind everything dispatched so far; a new command is   *)
(* newer still.                                                            *)
LastIdIsLast ==
    /\ lastId # None => \A i \in DOMAIN handled : handled[i] <= lastId
    /\ \A i \in DOMAIN handled : handled[i] <= issued

(* The one command at work has been dispatched last and has no verdict yet *)
(* unless the detector is already looking at its picture.                  *)
HandlerIsLast ==
    /\ handler.cmd # None => \E i \in DOMAIN handled : handled[i] = handler.cmd
    /\ handler.pc \in {"capture", "report"} =>
          \A s \in Statuses : <<handler.cmd, s>> \notin reports
    /\ handler.pc = "vision" => <<handler.cmd, handler.status>> \in reports

ReportedWasHandled ==
    \A c \in Cmds, s \in Statuses :
        <<c, s>> \in reports => \E i \in DOMAIN handled : handled[i] = c

PassedIsRun == passed \subseteq ran

(* NoneForgotten, said of each entry of the record of what was dispatched. *)
Accounted ==
    \A i \in DOMAIN handled :
        \/ handled[i] \in out \cup ran \cup unsaid \cup lost \cup {handler.cmd}
        \/ Kind[handled[i]] \in {"noid", "garbled"}
        \/ \E s \in Statuses : <<handled[i], s>> \in reports

IInv ==
    /\ TypeOK
    /\ InboxInOrder
    /\ LastIdIsLast
    /\ HandlerIsLast
    /\ ReportedWasHandled
    /\ PassedIsRun
    /\ HandledOnceInOrder
    /\ OneVerdict
    /\ Accounted

-------------------------------------------------------------------------------
(* What the ledger needs beyond IInv.                                      *)

(* No command is dispatched while another one is at work. *)
HandlerIsNewest ==
    handler.cmd # None => handled # << >> /\ handler.cmd = handled[Len(handled)]

SuccessIsACapture ==
    handler.pc = "capture" \/ handler.status = "SUCCESS" => Kind[handler.cmd] = "capture"

QueuedWasPublished ==
    \A c \in out : Kind[c] = "esp32" /\ \E i \in DOMAIN handled : handled[i] = c

LedgerInv == HandlerIsNewest /\ SuccessIsACapture /\ QueuedWasPublished
===============================================================================
