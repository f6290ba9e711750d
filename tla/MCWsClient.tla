------------------------------ MODULE MCWsClient ------------------------------
(* Model values and the symmetry of WsClient for TLC.  Symmetry is used for  *)
(* the runs without liveness only.                                           *)
EXTENDS WsClientInv, TLC

CONSTANTS m1, m2, m3, sync

OneMsg    == {m1}
TwoMsgs   == {m1, m2}
ThreeMsgs == {m1, m2, m3}

Symmetry == Permutations(Msgs)
===============================================================================
