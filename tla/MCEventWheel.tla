---------------------------- MODULE MCEventWheel ----------------------------
(* A small instance of EventWheel: two blocks and a wheel of two slots, so *)
(* that events of different revolutions share a slot and blocks are        *)
(* recycled while callbacks run.                                           *)
EXTENDS EventWheel
=============================================================================
