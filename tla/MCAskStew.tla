----------------------------- MODULE MCAskStew -----------------------------
(* Instances of AskStew for TLC. *)
EXTENDS AskStew, TLC

Symmetry == Permutations(Conversations) \cup Permutations(Submissions)

=============================================================================
