------------------------------ MODULE BoundedGate ------------------------------
(***************************************************************************)
(* What a backpressure counter promises: a gate that lets a message in     *)
(* while fewer than Room are inside, turns it away for good when there is  *)
(* no room and for no other reason, and lets no one in once it is shut.    *)
(* There is no counter here: those inside are counted.                     *)
(***************************************************************************)
EXTENDS Integers, FiniteSets

CONSTANTS
    Messages,
    Room   \* how many may be inside

VARIABLES
    inside,  \* messages let in and not gone yet
    gone,    \* those that left
    turned,  \* those turned away
    shut     \* no message comes any more

gateVars == <<inside, gone, turned, shut>>

Init == inside = {} /\ gone = {} /\ turned = {} /\ shut = FALSE

(* A message comes once. *)
Comes(m) == ~shut /\ m \notin inside \cup gone \cup turned

Enter(m) ==
    /\ Comes(m) /\ Cardinality(inside) < Room
    /\ inside' = inside \cup {m}
    /\ UNCHANGED <<gone, turned, shut>>

TurnAway(m) ==
    /\ Comes(m) /\ Cardinality(inside) >= Room
    /\ turned' = turned \cup {m}
    /\ UNCHANGED <<inside, gone, shut>>

Leave(m) ==
    /\ m \in inside
    /\ inside' = inside \ {m} /\ gone' = gone \cup {m}
    /\ UNCHANGED <<turned, shut>>

Shut ==
    /\ ~shut /\ shut' = TRUE
    /\ UNCHANGED <<inside, gone, turned>>

Next == Shut \/ \E m \in Messages : Enter(m) \/ TurnAway(m) \/ Leave(m)

Spec == Init /\ [][Next]_gateVars
===============================================================================
