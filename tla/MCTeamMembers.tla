--------------------------- MODULE MCTeamMembers ---------------------------
(* Instances of TeamMembers for TLC. *)
EXTENDS TeamMembers, TLC

CONSTANTS u1, u2, e1, e2

\* Each user has one address.
OneEach == e1 :> {u1} @@ e2 :> {u2}

\* The second user has two addresses, and may lose one to the first.
OneShared == e1 :> {u1, u2} @@ e2 :> {u2}

\* Operations by which users come to teams and teams come back.
JoiningOps == {"invite", "remove", "leave", "deactivate", "settings"}

\* All but the demotion, which changes a role as the promotion does.
OneTeamOps == AllOps \ {"demote"}

Symmetry == Permutations(Requests) \cup Permutations(Invitations)
            \cup Permutations(Teams)

=============================================================================
