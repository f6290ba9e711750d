-------------------------- MODULE TelemetryValidation --------------------------
(***************************************************************************)
(* telemetry.py: what the gateway forwards of a telemetry message.         *)
(*                                                                         *)
(* Numbers are in tenths of the unit of their field.  A comparison with    *)
(* not-a-number, which json.loads accepts, is false.                       *)
(***************************************************************************)
EXTENDS Integers

Angles   == {"horizontal_angle", "vertical_angle"}
Optional == {"battery_voltage", "battery_percent", "solar_voltage"}
Noisy    == {"solar_current", "solar_power"}
Energy   == "solar_energy_today_wh"
Fields   == Angles \cup Optional \cup Noisy \cup {Energy}

Low(f) == IF f \in Noisy THEN -5 ELSE 0
High(f) ==
    CASE f \in Angles           -> 1800
      [] f = "battery_voltage"  -> 150
      [] f = "battery_percent"  -> 1000
      [] f = "solar_voltage"    -> 300
      [] f = "solar_current"    -> 20
      [] f = "solar_power"      -> 50
ClampFloor == 0

Num(n)  == [is |-> "number", n |-> n]
Absent  == [is |-> "absent", n |-> 0]   \* or null
NaN     == [is |-> "nan", n |-> 0]
Text    == [is |-> "text", n |-> 0]     \* any other type
Reading == [is : {"number", "absent", "nan", "text"}, n : Int]

Below(v, limit)       == v.is = "number" /\ v.n < limit
Between(low, v, high) == v.is = "number" /\ low <= v.n /\ v.n <= high
IsNumber(v)           == v.is \in {"number", "nan"}

Accepts_NoFloor(f, v) ==
    \/ f \notin Angles /\ v.is = "absent"
    \/ IF f = Energy THEN IsNumber(v) ELSE Between(Low(f), v, High(f))
Accepts(f, v) ==
    \/ f \notin Angles /\ v.is = "absent"
    \/ IF f = Energy THEN IsNumber(v) /\ ~Below(v, 0)
                     ELSE Between(Low(f), v, High(f))

Clamped_BothSigns(f, v) ==
    IF f \in Noisy /\ Below(v, ClampFloor - Low(f)) THEN Num(ClampFloor) ELSE v
Clamped(f, v) == IF f \in Noisy /\ Below(v, ClampFloor) THEN Num(ClampFloor) ELSE v

(* What is left of a message that is rejected goes nowhere. *)
Validated(data) ==
    [valid |-> \A f \in Fields : Accepts(f, data[f]),
     data  |-> [f \in Fields |-> Clamped(f, data[f])]]
===============================================================================
