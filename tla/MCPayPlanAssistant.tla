------------------------- MODULE MCPayPlanAssistant -------------------------
(* Instances of PayPlanAssistant for TLC. *)
EXTENDS PayPlanAssistant

=============================================================================
