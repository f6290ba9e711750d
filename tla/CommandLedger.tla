----------------------------- MODULE CommandLedger -----------------------------
(***************************************************************************)
(* What the gateway promises the backend about commands, with no           *)
(* connection, no queue and no handler in sight: an ordered ledger.  A     *)
(* command is entered once and behind every older one; only the last entry *)
(* can get a verdict, and no verdict is revised; the ESP32 carries out     *)
(* entered commands that are its own.                                      *)
(***************************************************************************)
EXTENDS Integers, Sequences

CONSTANTS
    Issuable,  \* the numbers of the commands
    ForEsp,    \* those the gateway passes on
    Local      \* those it carries out itself

VARIABLES
    entered,   \* the commands in the order of their entry
    verdict,   \* what the gateway said of each
    executed   \* those that reached the ESP32

ledgerVars == <<entered, verdict, executed>>

Init ==
    /\ entered = << >>
    /\ verdict = [c \in Issuable |-> {}]
    /\ executed = {}

Enter(c) ==
    /\ \A i \in DOMAIN entered : entered[i] < c
    /\ entered' = Append(entered, c)
    /\ UNCHANGED <<verdict, executed>>

(* An older entry without a verdict never gets one. *)
Judge(c, status) ==
    /\ entered # << >> /\ c = entered[Len(entered)]
    /\ verdict[c] = {}
    /\ status = "SUCCESS" => c \in Local
    /\ verdict' = [verdict EXCEPT ![c] = {status}]
    /\ UNCHANGED <<entered, executed>>

(* At any later time, and whatever was said of the command. *)
Execute(c) ==
    /\ c \in ForEsp /\ \E i \in DOMAIN entered : entered[i] = c
    /\ executed' = executed \cup {c}
    /\ UNCHANGED <<entered, verdict>>

Next ==
    \E c \in Issuable :
        Enter(c) \/ Execute(c) \/ \E status \in {"SUCCESS", "FAILED"} : Judge(c, status)

Spec == Init /\ [][Next]_ledgerVars
===============================================================================
