------------------------------ MODULE MCCommands ------------------------------
(* Six commands of all kinds, those behind the capture having to wait for   *)
(* it, and a single one for the run about a refused one.                    *)
EXTENDS CommandsInv

AllKinds   == <<"esp32", "noid", "capture", "garbled", "unknown", "esp32">>
OneForEsp  == <<"esp32">>
===============================================================================
