---------------------------- MODULE OfflineBuffer ----------------------------
(***************************************************************************)
(* The SQLite table of src/pi_gateway/offline_buffer.py as a function from *)
(* message ids to rows, and its four statements as operators on it.  Every *)
(* statement runs in a worker thread on a connection of its own and        *)
(* commits before it returns, so a module that uses the table applies each *)
(* operator in one step.                                                   *)
(*                                                                         *)
(* The payload is not modelled: the table never looks at it.  The two      *)
(* time columns are one field, since no statement needs created_at once    *)
(* sent_at is set.                                                         *)
(*                                                                         *)
(* An operator named Op_Something is a slip a maintainer could make in Op; *)
(* the properties are checked to notice it.                                *)
(***************************************************************************)
EXTENDS Integers, Sequences, FiniteSets, SequencesExt

CONSTANTS
    Msgs,           \* the ids of the messages the gateway ever creates
    MaxAge,         \* BUFFER_MAX_AGE_SECONDS, in ticks of the wall clock
    SentRetention   \* BUFFER_SENT_RETENTION_S, in ticks of the wall clock

ASSUME AgesAssumption == MaxAge \in Nat /\ SentRetention \in Nat

(***************************************************************************)
(* at is created_at while the row is pending and sent_at afterwards.  An   *)
(* id that is not in the table has the row NoRow.                          *)
(***************************************************************************)
Rows  == [st : {"absent", "pending", "sent"}, at : Nat]
NoRow == [st |-> "absent", at |-> 0]

EmptyTable == [m \in Msgs |-> NoRow]

Pending(tbl) == {m \in Msgs : tbl[m].st = "pending"}

(* INSERT; an id that is already there raises IntegrityError: ignored. *)
Insert(tbl, m, t) ==
    IF tbl[m].st = "absent"
    THEN [tbl EXCEPT ![m] = [st |-> "pending", at |-> t]]
    ELSE tbl

(***************************************************************************)
(* What SELECT ... WHERE sent_at IS NULL ORDER BY created_at LIMIT may     *)
(* return: at most limit pending ids, each once, oldest first, none        *)
(* passed over for a younger one; ties come in any order.                  *)
(***************************************************************************)
Batches_Unordered(tbl, limit) ==
    {s \in SeqOf(Pending(tbl), limit) :
        IsInjective(s) /\ (Pending(tbl) \ Range(s) # {} => Len(s) = limit)}
Batches(tbl, limit) ==
    {s \in SeqOf(Pending(tbl), limit) :
        /\ IsInjective(s)
        /\ \A i, j \in DOMAIN s : i < j => tbl[s[i]].at <= tbl[s[j]].at
        /\ \A m \in Pending(tbl) \ Range(s) :
              /\ Len(s) = limit
              /\ \A i \in DOMAIN s : tbl[s[i]].at <= tbl[m].at}

(* UPDATE ... SET sent_at WHERE id: no row, no effect. *)
MarkSent_EveryRow(tbl, m, t) ==
    [n \in Msgs |-> IF tbl[n].st = "absent" THEN NoRow ELSE [st |-> "sent", at |-> t]]
MarkSent(tbl, m, t) ==
    IF tbl[m].st = "absent"
    THEN tbl
    ELSE [tbl EXCEPT ![m] = [st |-> "sent", at |-> t]]

Stale(row, t) ==
    \/ row.st = "pending" /\ row.at < t - MaxAge
    \/ row.st = "sent"    /\ row.at < t - SentRetention

(* DELETE of the rows that have outlived their limit. *)
Cleanup_Inclusive(tbl, t) ==
    [m \in Msgs |-> IF Stale(tbl[m], t + 1) THEN NoRow ELSE tbl[m]]
Cleanup(tbl, t) ==
    [m \in Msgs |-> IF Stale(tbl[m], t) THEN NoRow ELSE tbl[m]]
==============================================================================
