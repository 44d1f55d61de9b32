---------------------------- MODULE MCLearning ----------------------------
(* The project knows one instinct, on probation and all but retired; a new *)
(* one is a clean pass away from probation.                                *)
EXTENDS Learning

Doubtful == <<[zone |-> "relay", conf |-> 2, rung |-> 2]>>
=============================================================================
