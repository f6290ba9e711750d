---------------------------- MODULE MCMqttIngress ----------------------------
(* Six messages for two slots: enough for the limit to be reached, left and  *)
(* reached again, with every kind of content on both sides of it.            *)
EXTENDS MqttIngress

SixCalls == 1..6
Mixed    == <<"good", "garbled", "good", "refused", "garbled", "good">>
===============================================================================
