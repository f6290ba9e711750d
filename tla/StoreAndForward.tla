--------------------------- MODULE StoreAndForward ---------------------------
(***************************************************************************)
(* What the uplink promises its callers, with no connection, no flush task *)
(* and no thread in sight: a message that was handed over goes out on a    *)
(* connection or into the store, it stays in the store until it goes out   *)
(* or grows too old, and only a failing store or the death of the process  *)
(* can lose one that is in neither.  WsClient is shown to implement it.    *)
(***************************************************************************)
EXTENDS Integers

CONSTANTS
    Msgs,     \* the messages
    MaxAge    \* how long a stored message is kept

VARIABLES
    phase,    \* message -> where it is
    since,    \* message -> when it was stored (0 when it is not stored)
    now       \* the wall clock, which may be set forward or back

vars == <<phase, since, now>>

(* "held": in the hands of send_or_buffer.  "sent": written to a connection. *)
Phases == {"new", "held", "stored", "sent", "expired", "lost"}

TypeOK ==
    /\ phase \in [Msgs -> Phases]
    /\ since \in [Msgs -> Nat]
    /\ now \in Nat

Init ==
    /\ phase = [m \in Msgs |-> "new"]
    /\ since = [m \in Msgs |-> 0]
    /\ now \in Nat

Hold(m) ==
    /\ phase[m] = "new"
    /\ phase' = [phase EXCEPT ![m] = "held"]
    /\ UNCHANGED <<since, now>>

(* A forwarder that has read a stored message may still send it when the    *)
(* message has been deleted in the meantime: hence "expired".               *)
Send(m) ==
    /\ phase[m] \in {"new", "stored", "expired"}
    /\ phase' = [phase EXCEPT ![m] = "sent"]
    /\ since' = [since EXCEPT ![m] = 0]
    /\ UNCHANGED now

Store(m) ==
    /\ phase[m] = "held"
    /\ phase' = [phase EXCEPT ![m] = "stored"]
    /\ since' = [since EXCEPT ![m] = now]
    /\ UNCHANGED now

(* The store fails, or the process dies, with the messages of S in hand. *)
Lose(S) ==
    /\ \A m \in S : phase[m] = "held"
    /\ phase' = [m \in Msgs |-> IF m \in S THEN "lost" ELSE phase[m]]
    /\ UNCHANGED <<since, now>>

(* Everything that has been stored for too long goes, and nothing else. *)
Expire ==
    LET old == {m \in Msgs : phase[m] = "stored" /\ since[m] < now - MaxAge}
    IN  /\ phase' = [m \in Msgs |-> IF m \in old THEN "expired" ELSE phase[m]]
        /\ since' = [m \in Msgs |-> IF m \in old THEN 0 ELSE since[m]]
        /\ UNCHANGED now

SetClock ==
    /\ now' \in Nat
    /\ UNCHANGED <<phase, since>>

Next ==
    \/ \E m \in Msgs : Hold(m) \/ Send(m) \/ Store(m)
    \/ \E S \in SUBSET Msgs : Lose(S)
    \/ Expire
    \/ SetClock

Spec == Init /\ [][Next]_vars
==============================================================================
