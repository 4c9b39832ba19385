-------------------------- MODULE MCBillingCheckout --------------------------
(* Small instances of BillingCheckout for TLC.                             *)
EXTENDS BillingCheckout, TLC

(* Attempts, requests, users and grants are interchangeable rows.          *)
Symmetry == Permutations(Attempts) \cup Permutations(Requests)
              \cup Permutations(Users) \cup Permutations(Grants)
=============================================================================
