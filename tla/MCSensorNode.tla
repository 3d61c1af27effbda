---------------------------- MODULE MCSensorNode ----------------------------
(* Bounds for SensorNode: two servers, addresses of two bytes. *)
EXTENDS SensorNode
=============================================================================
