--------------------------- MODULE MCAccountEmail --------------------------
(* Instances of AccountEmail for TLC. *)
EXTENDS AccountEmail, TLC

Interchangeable == Permutations(Users) \cup Permutations(Emails)
=============================================================================
