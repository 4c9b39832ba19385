------------------------- MODULE MCPayPlanLifecycle -------------------------
(* A small instance of PayPlanLifecycle for TLC.                           *)
EXTENDS PayPlanLifecycle, TLC

(* Requests are interchangeable.                                           *)
Symmetry == Permutations(Requests)
=============================================================================
