---------------------------- MODULE MCHelloSensing ----------------------------
(* Instances of HelloSensing for TLC. *)
EXTENDS HelloSensing

CONSTANTS n1, n2
=============================================================================
