----------------------------- MODULE MCScenario ----------------------------
(* Instances of Scenario for TLC. *)
EXTENDS Scenario, TLC
=============================================================================
