---------------------------- MODULE MCSensorHealth ----------------------------
(* Instances of SensorHealth for TLC. *)
EXTENDS SensorHealth

CONSTANTS s1, s2
===============================================================================
