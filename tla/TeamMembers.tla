---------------------------- MODULE TeamMembers ----------------------------
(***************************************************************************)
(* Teams, memberships and invitations: team_services.py and the management *)
(* views of team_views.py.                                                 *)
(*                                                                         *)
(* A management request is not one transaction.  It reads the membership   *)
(* of the actor and his team, checks them, may read the membership of a    *)
(* target, and then writes by what it has read: each read and the write    *)
(* are actions of their own, and req keeps what was read.  Creating a      *)
(* team, inviting, revoking and declining are one transaction each; to     *)
(* accept locks the invitation and checks it, waits for the locks of the   *)
(* user and of the team, and writes.                                       *)
(*                                                                         *)
(* No code tells an absent membership from one that was declined, removed  *)
(* or left: their status is "out".                                         *)
(***************************************************************************)
EXTENDS Naturals, FiniteSets

CONSTANTS
  Users,        \* accounts
  Emails,       \* e-mail addresses
  MayHold,      \* bound: the accounts an address can ever be verified for
  MayLose,      \* bound: the addresses that are ever lost
  Invitees,     \* bound: the addresses that are ever invited
  Teams,        \* bound: the teams that can ever be created
  Invitations,  \* bound: the invitations open at a time
  Requests,     \* bound: concurrent management and acceptance requests
  Ops,          \* bound: the management operations requested
  None

ASSUME EmailsAssumption ==
  /\ MayHold \in [Emails -> SUBSET Users]
  /\ MayLose \subseteq Emails
  /\ Invitees \subseteq Emails

ASSUME NoneAssumption ==
  /\ None \notin Users
  /\ None \notin Emails
  /\ None \notin Teams
  /\ None \notin Invitations

VARIABLES
  team,      \* Team rows: the owner and is_active
  member,    \* TeamMembership rows
  invite,    \* TeamInvitation rows neither accepted nor revoked
  holder,    \* the account of the verified EmailAddress row of an address
  pro,       \* users get_team_entitlement gives Pro access
  req        \* requests in progress and what they have read

rows == <<team, member, invite>>
vars == <<team, member, invite, holder, pro, req>>

Roles    == {"owner", "admin", "member"}
Statuses == {"out", "invited", "active"}

NoTeam     == [owner |-> None, active |-> FALSE]
TeamRow    == {NoTeam} \cup [owner : Users, active : BOOLEAN]
Membership == [role : Roles, status : Statuses]
NoInvite   == [team |-> None, email |-> None, bound |-> None, expired |-> FALSE]
Invitation ==
  {NoInvite} \cup
  [team : Teams, email : Emails, bound : Users \cup {None}, expired : BOOLEAN]

OwnerOps   == {"promote", "demote", "transfer", "deactivate"}
ManagerOps == {"remove", "settings", "invite", "revoke"}
TargetOps  == {"remove", "promote", "demote", "transfer"}
AllOps     == OwnerOps \cup ManagerOps \cup {"leave"}

ASSUME OpsAssumption == Ops \subseteq AllOps

\* What a request has read: the actor's team row, the target and his role,
\* or the invitation it holds the row lock of.
NoRequest ==
  [op |-> "none", user |-> None, team |-> None, owner |-> None,
   target |-> None, invite |-> None]
Management ==
  [op : AllOps, user : Users, team : Teams, owner : Users,
   target : Users \cup {None}, invite : {None}]
Acceptance ==
  [op : {"accept"}, user : Users, team : Teams, owner : {None},
   target : {None}, invite : Invitations]
HidingWork ==
  [op : {"hide"}, user : Users, team : Teams, owner : {None}, target : {None},
   invite : {None}]
Request == {NoRequest} \cup Management \cup Acceptance \cup HidingWork

Init ==
  /\ team = [t \in Teams |-> NoTeam]
  /\ member = [t \in Teams |-> [u \in Users |->
                 [role |-> "member", status |-> "out"]]]
  /\ invite = [i \in Invitations |-> NoInvite]
  /\ holder = [e \in Emails |-> None]
  /\ pro = {}
  /\ req = [r \in Requests |-> NoRequest]

-----------------------------------------------------------------------------
(* What the queries find                                                   *)

Active(t, u)     == member[t][u].status = "active"
ActiveTeams(u)   == {t \in Teams : team[t].active /\ Active(t, u)}
OwnedTeams(u)    == {t \in Teams : team[t].active /\ team[t].owner = u}
OpenInvites(t)   == {i \in Invitations : invite[i].team = t}
HasVerified(u)   == \E e \in Emails : holder[e] = u

\* Mutant: invitations read without select_for_update.
Unlocked(i) == FALSE

\* The row lock of an invitation, held from the check to the end.
Held(i) == \E r \in Requests : req[r].invite = i

Close(S) == [i \in Invitations |-> IF i \in S THEN NoInvite ELSE invite[i]]

\* A membership with this role and status in the row of t and u.
Written(t, u, role, status) ==
  [member EXCEPT ![t][u] = [role |-> role, status |-> status]]

End(r) == req' = [req EXCEPT ![r] = NoRequest]

-----------------------------------------------------------------------------
(* Creating a team                                                         *)

MayCreate(u) ==
  /\ u \in pro
  /\ OwnedTeams(u) = {}
  /\ ActiveTeams(u) = {}

CreateTeam(u, t) ==
  /\ team[t] = NoTeam
  /\ MayCreate(u)
  /\ team' = [team EXCEPT ![t] = [owner |-> u, active |-> TRUE]]
  /\ member' = Written(t, u, "owner", "active")
  /\ UNCHANGED <<invite, holder, pro, req>>

-----------------------------------------------------------------------------
(* Management requests                                                     *)

\* The role that the operation needs.
MayStart(op, role) ==
  /\ op \in OwnerOps => role = "owner"
  /\ op \in ManagerOps => role \in {"owner", "admin"}
  /\ op = "leave" => role # "owner"

\* get_team_membership_or_404 and require_management: the team is read only
\* unless the owner, as read, has Pro access.
Start(r, op, u, t) ==
  /\ req[r] = NoRequest
  /\ team[t].active
  /\ Active(t, u)
  /\ MayStart(op, member[t][u].role)
  /\ op # "leave" => team[t].owner \in pro
  /\ req' = [req EXCEPT ![r] =
               [op |-> op, user |-> u, team |-> t, owner |-> team[t].owner,
                target |-> None, invite |-> None]]
  /\ UNCHANGED <<rows, holder, pro>>

\* What the view asks of the target.
MayTarget(op, u, v, role) ==
  CASE op = "remove"   -> role # "owner"
    [] op = "promote"  -> v # u /\ role = "member"
    [] op = "demote"   -> v # u /\ role = "admin"
    [] op = "transfer" -> v # u /\ v \in pro

ReadTarget(r, v) ==
  /\ req[r].op \in TargetOps
  /\ req[r].target = None
  /\ Active(req[r].team, v)
  /\ MayTarget(req[r].op, req[r].user, v, member[req[r].team][v].role)
  /\ req' = [req EXCEPT ![r].target = v]
  /\ UNCHANGED <<rows, holder, pro>>

TargetRead(r) == req[r].target # None

\* Mutant: save() without update_fields.
WholeRow(row, role) == [role |-> role, status |-> "active"]

\* save(update_fields=...) writes the named columns of the target alone.
RemovedRow(row)    == [row EXCEPT !.status = "out"]
RoleRow(row, role) == [row EXCEPT !.role = role]

\* The activities of the membership are hidden by a statement of its own,
\* which ends the request: see TeamFeed.
Hiding(r, v) ==
  req' = [req EXCEPT ![r] =
            [NoRequest EXCEPT !.op = "hide", !.user = v, !.team = req[r].team]]

Remove(r) ==
  /\ req[r].op = "remove"
  /\ TargetRead(r)
  /\ member' = [member EXCEPT ![req[r].team][req[r].target] = RemovedRow(@)]
  /\ Hiding(r, req[r].target)
  /\ UNCHANGED <<team, invite, holder, pro>>

ChangeRole(r) ==
  /\ req[r].op \in {"promote", "demote"}
  /\ TargetRead(r)
  /\ LET role == IF req[r].op = "promote" THEN "admin" ELSE "member"
     IN  member' = [member EXCEPT ![req[r].team][req[r].target] =
                                    RoleRow(@, role)]
  /\ End(r)
  /\ UNCHANGED <<team, invite, holder, pro>>

\* Locks the target's user row and the team, and looks again only for
\* another active team of the target.
Transfer(r) ==
  LET t == req[r].team
      v == req[r].target
  IN  /\ req[r].op = "transfer"
      /\ TargetRead(r)
      /\ OwnedTeams(v) \subseteq {t}
      /\ team' = [team EXCEPT ![t] = [owner |-> v, active |-> @.active]]
      /\ member' = [member EXCEPT ![t] = [w \in Users |->
                       CASE w = v -> RoleRow(@[w], "owner")
                         [] w = req[r].user /\ w # v -> RoleRow(@[w], "admin")
                         [] OTHER -> @[w]]]
      /\ End(r)
      /\ UNCHANGED <<invite, holder, pro>>

Leave(r) ==
  /\ req[r].op = "leave"
  /\ member' = [member EXCEPT ![req[r].team][req[r].user] = RemovedRow(@)]
  /\ Hiding(r, req[r].user)
  /\ UNCHANGED <<team, invite, holder, pro>>

Deactivate(r) ==
  /\ req[r].op = "deactivate"
  /\ team' = [team EXCEPT ![req[r].team] =
                [owner |-> @.owner, active |-> FALSE]]
  /\ End(r)
  /\ UNCHANGED <<member, invite, holder, pro>>

\* require_management once more, with the owner as read.
StillManaged(r) == req[r].owner \in pro

\* form.save() writes every column of the row as the request has read it.
SaveSettings(r) ==
  /\ req[r].op = "settings"
  /\ StillManaged(r)
  /\ team' = [team EXCEPT ![req[r].team] =
                [owner |-> req[r].owner, active |-> TRUE]]
  /\ End(r)
  /\ UNCHANGED <<member, invite, holder, pro>>

\* The request is refused, fails (an invitation that cannot be e-mailed, a
\* transaction aborted to break a deadlock), has no membership left to write
\* or its worker dies.
EndRequest(r) ==
  /\ req[r] # NoRequest
  /\ End(r)
  /\ UNCHANGED <<rows, holder, pro>>

-----------------------------------------------------------------------------
(* Invitations                                                             *)

\* An account that owns the team or is an active member of a team.
MayInvite(t, u) ==
  /\ u # team[t].owner
  /\ ActiveTeams(u) = {}

\* Mutant: invitations sent before the address was verified are forgotten.
BoundReplaced(t, e) ==
  {i \in OpenInvites(t) : invite[i].email = e /\ invite[i].bound # None}

\* The invitations a new one to the same address replaces.
Replaced(t, e) == {i \in OpenInvites(t) : invite[i].email = e}

Invite(r, e, i) ==
  LET t == req[r].team
      u == holder[e]
  IN  /\ req[r].op = "invite"
      /\ StillManaged(r)
      /\ team[t].active
      /\ u # None => MayInvite(t, u)
      /\ invite[i] = NoInvite
      /\ \A j \in Replaced(t, e) : ~Held(j)
      /\ member' = IF u = None THEN member
                               ELSE Written(t, u, "member", "invited")
      /\ invite' = [Close(Replaced(t, e)) EXCEPT ![i] =
                      [team |-> t, email |-> e, bound |-> u, expired |-> FALSE]]
      /\ End(r)
      /\ UNCHANGED <<team, holder, pro>>

\* Mutant: the membership is left as it is.
NotAnswered(t, u) == member

\* The membership waiting for an answer, if it is still waiting.
Answered(t, u) ==
  IF u # None /\ member[t][u].status = "invited"
    THEN [member EXCEPT ![t][u].status = "out"]
    ELSE member

Revoke(r, i) ==
  /\ req[r].op = "revoke"
  /\ i \in OpenInvites(req[r].team)
  /\ ~Held(i)
  /\ invite' = Close({i})
  /\ member' = Answered(req[r].team, invite[i].bound)
  /\ End(r)
  /\ UNCHANGED <<team, holder, pro>>

\* _invitation_for_digest_or_404
Acceptable(i, u) ==
  /\ invite[i] # NoInvite
  /\ team[invite[i].team].active
  /\ ~invite[i].expired
  /\ invite[i].bound \in {None, u}
  /\ holder[invite[i].email] = u
  /\ ~Active(invite[i].team, u)
  /\ ~Held(i)

Decline(u, i) ==
  /\ Acceptable(i, u)
  /\ invite' = Close({i})
  /\ member' = Answered(invite[i].team, u)
  /\ UNCHANGED <<team, holder, pro, req>>

AcceptCheck(r, u, i) ==
  /\ req[r] = NoRequest
  /\ Acceptable(i, u)
  /\ req' = [req EXCEPT ![r] =
               [op |-> "accept", user |-> u, team |-> invite[i].team,
                owner |-> None, target |-> None, invite |-> i]]
  /\ UNCHANGED <<rows, holder, pro>>

\* Mutant: a team of his own does not keep the user out.
JoinsUnlessGuest(t, u) == \A s \in ActiveTeams(u) \ {t} : team[s].owner = u

\* No active team but this one, read under the lock of the user row.
MayJoin(t, u) == ActiveTeams(u) \subseteq {t}

\* Mutant: only the invitations to the same address.
SettledByEmail(t, u, e) == {i \in OpenInvites(t) : invite[i].email = e}

\* The invitations one acceptance closes.
Settled(t, u, e) ==
  {i \in OpenInvites(t) : invite[i].bound = u \/ invite[i].email = e}

AcceptCommit(r) ==
  LET t == req[r].team
      u == req[r].user
      S == Settled(t, u, invite[req[r].invite].email)
  IN  /\ req[r].op = "accept"
      /\ MayJoin(t, u)
      /\ \A i \in S \ {req[r].invite} : ~Held(i)
      /\ member' = Written(t, u, "member", "active")
      /\ invite' = Close(S \cup {req[r].invite})
      /\ End(r)
      /\ UNCHANGED <<team, holder, pro>>

-----------------------------------------------------------------------------
(* The environment                                                         *)

Expire(i) ==
  /\ invite[i] # NoInvite
  /\ ~invite[i].expired
  /\ invite' = [invite EXCEPT ![i].expired = TRUE]
  /\ UNCHANGED <<team, member, holder, pro, req>>

\* No two accounts have an address verified.
VerifyEmail(e, u) ==
  /\ holder[e] = None
  /\ u \in MayHold[e]
  /\ holder' = [holder EXCEPT ![e] = u]
  /\ UNCHANGED <<rows, pro, req>>

\* The user removes the address or changes it, or an administrator deletes or
\* edits it. A change of its account is this and VerifyEmail.
LoseEmail(e) ==
  /\ e \in MayLose
  /\ holder[e] # None
  /\ holder' = [holder EXCEPT ![e] = None]
  /\ UNCHANGED <<rows, pro, req>>

\* Checkout asks for a verified address, so Pro access comes after it.
GainPro(u) ==
  /\ u \notin pro
  /\ HasVerified(u)
  /\ pro' = pro \cup {u}
  /\ UNCHANGED <<rows, holder, req>>

LosePro(u) ==
  /\ u \in pro
  /\ pro' = pro \ {u}
  /\ UNCHANGED <<rows, holder, req>>

-----------------------------------------------------------------------------
Write(r) ==
  \/ Remove(r)
  \/ ChangeRole(r)
  \/ Transfer(r)
  \/ Leave(r)
  \/ Deactivate(r)
  \/ SaveSettings(r)
  \/ AcceptCommit(r)
  \/ \E e \in Invitees, i \in Invitations : Invite(r, e, i)
  \/ \E i \in Invitations : Revoke(r, i)

RequestStep(r) ==
  \/ \E op \in Ops, u \in Users, t \in Teams : Start(r, op, u, t)
  \/ \E v \in Users : ReadTarget(r, v)
  \/ \E u \in Users, i \in Invitations : AcceptCheck(r, u, i)
  \/ Write(r)
  \/ EndRequest(r)

Environment ==
  \/ \E i \in Invitations : Expire(i)
  \/ \E e \in Emails : LoseEmail(e) \/ \E u \in Users : VerifyEmail(e, u)
  \/ \E u \in Users : GainPro(u) \/ LosePro(u)

Next ==
  \/ \E u \in Users, t \in Teams : CreateTeam(u, t)
  \/ \E r \in Requests : RequestStep(r)
  \/ \E u \in Users, i \in Invitations : Decline(u, i)
  \/ Environment

Spec == Init /\ [][Next]_vars

-----------------------------------------------------------------------------
(* What team_services.py and team_views.py promise                         *)

\* The type invariant: a team row always has an owner, and a request its
\* place among those above.
TypeOK ==
  /\ team \in [Teams -> TeamRow]
  /\ member \in [Teams -> [Users -> Membership]]
  /\ invite \in [Invitations -> Invitation]
  /\ holder \in [Emails -> Users \cup {None}]
  /\ pro \subseteq Users
  /\ req \in [Requests -> Request]

\* An address never has two open invitations to a team, however requests to
\* invite it race: create_invitation revokes the former under the lock of the
\* team.
OnePending ==
  \A i, j \in Invitations :
    invite[i] # NoInvite /\ invite[j] # NoInvite /\ i # j =>
      \/ invite[i].team # invite[j].team
      \/ invite[i].email # invite[j].email

\* A user who is an active member of a team has no open invitation bound to
\* him there, although an invitation to another of his addresses may be
\* created while he accepts.
MemberHasNoPending ==
  \A i \in Invitations :
    invite[i].bound # None => ~Active(invite[i].team, invite[i].bound)

Waits(t, u)  == member[t][u].status = "invited"
Backed(t, u) == \E i \in OpenInvites(t) : invite[i].bound = u

\* An invitation bound to u is replaced by one to the same address, which is
\* verified for him no more.
AddressLost(t, u) ==
  \E i, j \in Invitations :
    /\ invite[i].team = t
    /\ invite[i].bound = u
    /\ holder[invite[i].email] # u
    /\ invite'[j] # invite[j]
    /\ invite'[j].team = t
    /\ invite'[j].email = invite[i].email

\* A membership comes to wait for an answer only with an open invitation
\* bound to the user, and revoking, declining, replacing and accepting
\* invitations leave none waiting without one, except in one case: the user
\* lost the address he was invited by, and it is invited again.
StaysBacked ==
  [][\A t \in Teams, u \in Users :
       Waits(t, u)' =>
         \/ Backed(t, u)'
         \/ Waits(t, u) /\ ~Backed(t, u)
         \/ AddressLost(t, u)]_vars

\* At most one request works on an invitation, which stays open meanwhile and
\* bound to nobody else.  (His address is not checked again: he may have lost
\* it since.)
HeldOnce ==
  \A r \in Requests : req[r].op = "accept" =>
    LET i == req[r].invite
    IN  /\ i # None
        /\ invite[i] # NoInvite
        /\ invite[i].team = req[r].team
        /\ invite[i].bound \in {None, req[r].user}
        /\ \A s \in Requests : req[s].invite = i => s = r

Joins(t, u) == ~Active(t, u) /\ Active(t, u)'

\* The one-active-team policy, for every way to join: a step that makes a
\* user an active member of an active team leaves him no other one.
JoinsOneTeam ==
  [][\A t \in Teams, u \in Users :
       Joins(t, u) /\ team'[t].active => ActiveTeams(u)' = {t}]_vars

\* Who was removed, left or was never in a team comes in only by creating it
\* or by a request of his own that accepts an open invitation, bound to no one
\* else: no stale role change, transfer or settings form brings him back.
OutStaysOut ==
  [][\A t \in Teams, u \in Users :
       Joins(t, u) =>
         \/ team[t] = NoTeam /\ team'[t].owner = u
         \/ \E r \in Requests :
              /\ req[r].op = "accept" /\ req[r].user = u
              /\ req[r].invite \in OpenInvites(t)
              /\ invite[req[r].invite].bound \in {None, u}
              /\ invite'[req[r].invite] = NoInvite]_vars

\* docs/phase2a_teams.md:20-21: "The one-active-team policy is enforced in
\* the transactional service layer today."
OneActiveTeam == \A u \in Users : Cardinality(ActiveTeams(u)) <= 1

=============================================================================
