------------------------- MODULE MC_MqttConnection -------------------------
(* Model checking of MqttConnection: the reconcile loop and a handler      *)
(* goroutine.                                                              *)
EXTENDS MqttConnection
=============================================================================
