----------------------------- MODULE MCTeamFeed -----------------------------
(* An instance of TeamFeed for TLC. *)
EXTENDS TeamFeed, TLC

CONSTANTS u1, u2, e1, e2, s1

\* Each user has one address, and the second sells.
OneEach == e1 :> {u1} @@ e2 :> {u2}
Second  == s1 :> u2

\* Operations by which users come to teams and go.
JoiningOps == {"invite", "leave", "remove"}

Symmetry == Permutations(Requests) \cup Permutations(Invitations)
            \cup Permutations(Teams) \cup Permutations(Workers) \cup Permutations(Activities)
            \cup Permutations(Units)

=============================================================================
