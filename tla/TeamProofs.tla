----------------------------- MODULE TeamProofs -----------------------------
(* Theorems about TeamMembers and TeamFeed for every value of their        *)
(* constants: teams first, and the feed over them at the end.              *)
EXTENDS TeamFeed, TLAPS

-----------------------------------------------------------------------------
(* The types                                                               *)

LEMMA TypeInit == Init => TypeOK
BY DEF Init, TypeOK, TeamRow, Membership, Roles, Statuses, Invitation, Request

(* The operators that the writes are built from keep the types.            *)
LEMMA WrittenType ==
  ASSUME TypeOK, NEW t \in Teams, NEW u \in Users,
         NEW role \in Roles, NEW status \in Statuses
  PROVE  Written(t, u, role, status) \in [Teams -> [Users -> Membership]]
BY DEF TypeOK, Written, Membership

LEMMA RowType ==
  ASSUME NEW row \in Membership, NEW role \in Roles
  PROVE  RoleRow(row, role) \in Membership /\ RemovedRow(row) \in Membership
BY DEF Membership, RoleRow, RemovedRow, Statuses

LEMMA TeamEdit ==
  ASSUME NEW row \in TeamRow, NEW u \in Users
  PROVE  /\ [owner |-> u, active |-> row.active] \in TeamRow
         /\ [owner |-> row.owner, active |-> FALSE] \in TeamRow
<1>1. row.active \in BOOLEAN
  <2>1. NoTeam.active = FALSE
    BY DEF NoTeam
  <2>2. NoTeam.active \in BOOLEAN
    BY <2>1
  <2>3. CASE row \in [owner : Users, active : BOOLEAN]
    BY <2>3
  <2> QED
    BY <2>2, <2>3 DEF TeamRow
<1>2. row.owner \in Users \/ row = NoTeam
  BY DEF TeamRow
<1>3. row = NoTeam => [owner |-> row.owner, active |-> FALSE] = NoTeam
  BY DEF NoTeam
<1>4. \A w \in Users, b \in BOOLEAN : [owner |-> w, active |-> b] \in TeamRow
  BY DEF TeamRow
<1> QED
  BY <1>1, <1>2, <1>3, <1>4 DEF TeamRow

LEMMA CloseType ==
  ASSUME TypeOK, NEW S PROVE Close(S) \in [Invitations -> Invitation]
BY DEF TypeOK, Close, Invitation

LEMMA AnsweredType ==
  ASSUME TypeOK, NEW t \in Teams, NEW u \in Users \cup {None}
  PROVE  Answered(t, u) \in [Teams -> [Users -> Membership]]
<1>1. CASE u \notin Users
  BY <1>1, NoneAssumption DEF TypeOK, Answered
<1>2. CASE u \in Users
  <2>1. member \in [Teams -> [Users -> Membership]]
    BY DEF TypeOK
  <2>2. [member[t][u] EXCEPT !.status = "out"] \in Membership
    BY <1>2, <2>1 DEF Membership, Statuses
  <2> QED
    BY <1>2, <2>1, <2>2 DEF Answered
<1> QED
  BY <1>1, <1>2

(* A request that writes after reading a target has a team and a target.   *)
LEMMA TargetType ==
  ASSUME TypeOK, NEW r \in Requests, TargetRead(r)
  PROVE  /\ req[r] \in Management
         /\ req[r].team \in Teams
         /\ req[r].user \in Users
         /\ req[r].target \in Users
BY DEF TypeOK, TargetRead, Request, NoRequest, Management, Acceptance, HidingWork

(* So does every request that is in progress have its team and actor.      *)
LEMMA RequestType ==
  ASSUME TypeOK, NEW r \in Requests, req[r].op # "none"
  PROVE  req[r].team \in Teams /\ req[r].user \in Users
BY DEF TypeOK, Request, NoRequest, Management, Acceptance, HidingWork

LEMMA ManagementType ==
  ASSUME TypeOK, NEW r \in Requests, req[r].op \in AllOps
  PROVE  req[r] \in Management
BY DEF TypeOK, Request, NoRequest, Acceptance, HidingWork, AllOps, OwnerOps, ManagerOps

LEMMA AcceptanceType ==
  ASSUME TypeOK, NEW r \in Requests, req[r].op = "accept"
  PROVE  req[r] \in Acceptance
BY DEF TypeOK, Request, NoRequest, Management, HidingWork, AllOps, OwnerOps, ManagerOps

LEMMA EndType ==
  ASSUME TypeOK, NEW r \in Requests, End(r)
  PROVE  req' \in [Requests -> Request]
BY DEF TypeOK, End, Request

LEMMA HidingType ==
  ASSUME TypeOK, NEW r \in Requests, NEW v \in Users, req[r].op # "none", Hiding(r, v)
  PROVE  req' \in [Requests -> Request]
BY RequestType DEF TypeOK, Hiding, NoRequest, HidingWork, Request

LEMMA TypeWrite ==
  ASSUME TypeOK, NEW r \in Requests, Write(r) PROVE TypeOK'
<1>1. CASE Remove(r)
  BY <1>1, TargetType, RowType, HidingType DEF TypeOK, Remove, Roles
<1>2. CASE ChangeRole(r)
  BY <1>2, TargetType, RowType, EndType DEF TypeOK, ChangeRole, Roles
<1>3. CASE Transfer(r)
  <2> DEFINE t == req[r].team
             v == req[r].target
  <2>1. t \in Teams /\ v \in Users
    BY <1>3, TargetType DEF Transfer
  <2>2. \A w \in Users : /\ member[t][w] \in Membership
                         /\ RoleRow(member[t][w], "admin") \in Membership
                         /\ RoleRow(member[t][w], "owner") \in Membership
    BY <2>1, RowType DEF TypeOK, Roles
  <2>3. member' \in [Teams -> [Users -> Membership]]
    BY <1>3, <2>1, <2>2 DEF TypeOK, Transfer
  <2>4. team' \in [Teams -> TeamRow]
    BY <1>3, <2>1, TeamEdit DEF TypeOK, Transfer
  <2>5. req' \in [Requests -> Request]
    BY <1>3, EndType DEF Transfer
  <2> QED
    BY <1>3, <2>3, <2>4, <2>5 DEF TypeOK, Transfer
<1>4. CASE Leave(r)
  BY <1>4, RequestType, RowType, HidingType DEF TypeOK, Leave, Roles
<1>5. CASE Deactivate(r)
  <2>1. req[r].team \in Teams /\ req[r].user \in Users
    BY <1>5, RequestType DEF Deactivate
  <2>2. team' \in [Teams -> TeamRow]
    BY <1>5, <2>1, TeamEdit DEF TypeOK, Deactivate
  <2> QED
    BY <1>5, <2>2, EndType DEF TypeOK, Deactivate
<1>6. CASE SaveSettings(r)
  <2>1. req[r].owner \in Users
    BY <1>6, ManagementType
       DEF SaveSettings, AllOps, ManagerOps, Management
  <2> QED
    BY <1>6, <2>1, EndType DEF TypeOK, SaveSettings, TeamRow
<1>7. CASE AcceptCommit(r)
  BY <1>7, RequestType, WrittenType, CloseType, EndType
     DEF TypeOK, AcceptCommit, Roles, Statuses
<1>8. ASSUME NEW e \in Invitees, NEW i \in Invitations, Invite(r, e, i)
      PROVE  TypeOK'
  <2> DEFINE t == req[r].team
  <2>1. t \in Teams
    BY <1>8, RequestType DEF Invite
  <2>2. e \in Emails /\ holder[e] \in Users \cup {None}
    BY EmailsAssumption DEF TypeOK
  <2>3. member' \in [Teams -> [Users -> Membership]]
    BY <1>8, <2>1, <2>2, WrittenType DEF TypeOK, Invite, Roles, Statuses
  <2>4. [team |-> t, email |-> e, bound |-> holder[e], expired |-> FALSE]
          \in Invitation
    BY <2>1, <2>2 DEF Invitation
  <2>5. Close(Replaced(t, e)) \in [Invitations -> Invitation]
    BY CloseType
  <2>6. invite' \in [Invitations -> Invitation]
    BY <1>8, <2>4, <2>5 DEF Invite
  <2> QED
    BY <1>8, <2>3, <2>6, EndType DEF TypeOK, Invite
<1>9. ASSUME NEW i \in Invitations, Revoke(r, i) PROVE TypeOK'
  <2>1. invite[i].bound \in Users \cup {None}
    BY DEF TypeOK, Invitation, NoInvite
  <2> QED
    BY <1>9, <2>1, RequestType, AnsweredType, CloseType, EndType
       DEF TypeOK, Revoke
<1> QED
  BY <1>1, <1>2, <1>3, <1>4, <1>5, <1>6, <1>7, <1>8, <1>9 DEF Write

LEMMA TypeRequest ==
  ASSUME TypeOK, NEW r \in Requests, RequestStep(r) PROVE TypeOK'
<1>1. ASSUME NEW op \in Ops, NEW u \in Users, NEW t \in Teams,
             Start(r, op, u, t)
      PROVE  TypeOK'
  <2>1. team[t].owner \in Users
    BY <1>1 DEF TypeOK, Start, TeamRow, NoTeam
  <2>2. op \in AllOps
    BY OpsAssumption
  <2> QED
    BY <1>1, <2>1, <2>2 DEF TypeOK, Start, Request, Management, rows
<1>2. ASSUME NEW v \in Users, ReadTarget(r, v) PROVE TypeOK'
  <2>1. req[r] \in Management
    BY <1>2, ManagementType
       DEF ReadTarget, TargetOps, AllOps, OwnerOps, ManagerOps
  <2>2. [req[r] EXCEPT !.target = v] \in Management
    BY <2>1 DEF Management
  <2> QED
    BY <1>2, <2>2 DEF TypeOK, ReadTarget, Request, rows
<1>3. ASSUME NEW u \in Users, NEW i \in Invitations, AcceptCheck(r, u, i)
      PROVE  TypeOK'
  <2>1. invite[i].team \in Teams
    BY <1>3 DEF TypeOK, AcceptCheck, Acceptable, Invitation
  <2> QED
    BY <1>3, <2>1 DEF TypeOK, AcceptCheck, Request, Acceptance, rows
<1>4. CASE Write(r)
  BY <1>4, TypeWrite
<1>5. CASE EndRequest(r)
  BY <1>5, EndType DEF TypeOK, EndRequest, rows
<1> QED
  BY <1>1, <1>2, <1>3, <1>4, <1>5 DEF RequestStep

LEMMA TypeNext ==
  ASSUME TypeOK, [Next]_vars PROVE TypeOK'
<1>1. ASSUME NEW u \in Users, NEW t \in Teams, CreateTeam(u, t)
      PROVE  TypeOK'
  BY <1>1, WrittenType DEF TypeOK, CreateTeam, TeamRow, Roles, Statuses
<1>2. ASSUME NEW r \in Requests, RequestStep(r) PROVE TypeOK'
  BY <1>2, TypeRequest
<1>3. ASSUME NEW u \in Users, NEW i \in Invitations, Decline(u, i)
      PROVE  TypeOK'
  <2>1. invite[i].team \in Teams
    BY <1>3 DEF TypeOK, Decline, Acceptable, Invitation
  <2> QED
    BY <1>3, <2>1, AnsweredType, CloseType DEF TypeOK, Decline
<1>4. CASE Environment
  <2>1. ASSUME NEW i \in Invitations, Expire(i) PROVE TypeOK'
    BY <2>1 DEF TypeOK, Expire, Invitation
  <2>2. ASSUME NEW e \in Emails, LoseEmail(e) \/ \E u \in Users : VerifyEmail(e, u)
        PROVE  TypeOK'
    BY <2>2 DEF TypeOK, LoseEmail, VerifyEmail, rows
  <2>3. ASSUME NEW u \in Users, GainPro(u) \/ LosePro(u) PROVE TypeOK'
    BY <2>3 DEF TypeOK, GainPro, LosePro, rows
  <2> QED
    BY <1>4, <2>1, <2>2, <2>3 DEF Environment
<1>5. CASE UNCHANGED vars
  BY <1>5 DEF TypeOK, vars
<1> QED
  BY <1>1, <1>2, <1>3, <1>4, <1>5 DEF Next

(* Every variable keeps its type: an active team always has an owner.      *)
THEOREM TypeCorrect == Spec => []TypeOK
<1>1. Init => TypeOK
  BY TypeInit
<1>2. TypeOK /\ [Next]_vars => TypeOK'
  BY TypeNext
<1> QED
  BY <1>1, <1>2, PTL DEF Spec

-----------------------------------------------------------------------------
(* The inductive invariant                                                 *)

(* An open invitation is one of a team that was created.                   *)
Provenance ==
  \A i \in Invitations : invite[i] # NoInvite => team[invite[i].team].owner # None

Pending == OnePending /\ MemberHasNoPending /\ HeldOnce /\ Provenance

(* The step of StaysBacked.                                                *)
Stays ==
  \A t \in Teams, u \in Users :
    Waits(t, u)' =>
      \/ Backed(t, u)'
      \/ Waits(t, u) /\ ~Backed(t, u)
      \/ AddressLost(t, u)

(* A step that sends, closes and takes no invitation, and lets nobody in.   *)
Quiet ==
  /\ invite' = invite
  /\ \A t \in Teams : team[t].owner # None => team'[t].owner # None
  /\ \A t \in Teams, u \in Users :
       member'[t][u].status \in {member[t][u].status, "out"}
  /\ \A r \in Requests :
       req'[r].op = "accept" \/ req'[r].invite # None => req'[r] = req[r]

LEMMA InviteType ==
  ASSUME TypeOK, NEW i \in Invitations, invite[i] # NoInvite
  PROVE  /\ invite[i].team \in Teams
         /\ invite[i].email \in Emails
         /\ invite[i].bound \in Users \cup {None}
         /\ invite[i].expired \in BOOLEAN
BY DEF TypeOK, Invitation

LEMMA NoInviteFields ==
  /\ NoInvite.team = None
  /\ NoInvite.bound = None
BY DEF NoInvite

LEMMA EndQuiet ==
  ASSUME TypeOK, NEW r \in Requests, End(r)
  PROVE  \A s \in Requests :
           req'[s].op = "accept" \/ req'[s].invite # None => req'[s] = req[s]
BY DEF TypeOK, End, NoRequest

LEMMA HidingQuiet ==
  ASSUME TypeOK, NEW r \in Requests, NEW v \in Users, Hiding(r, v)
  PROVE  \A s \in Requests :
           req'[s].op = "accept" \/ req'[s].invite # None => req'[s] = req[s]
BY DEF TypeOK, Hiding, NoRequest

LEMMA QuietWrite ==
  ASSUME TypeOK, NEW r \in Requests,
         \/ Remove(r) \/ ChangeRole(r) \/ Transfer(r) \/ Leave(r)
         \/ Deactivate(r) \/ SaveSettings(r)
  PROVE  Quiet
<1>1. CASE Remove(r)
  BY <1>1, TargetType, HidingQuiet DEF TypeOK, Remove, RemovedRow, Membership, Quiet
<1>2. CASE ChangeRole(r)
  BY <1>2, TargetType, EndQuiet DEF TypeOK, ChangeRole, RoleRow, Membership, Quiet
<1>3. CASE Transfer(r)
  <2> DEFINE t == req[r].team
             v == req[r].target
  <2>1. t \in Teams /\ v \in Users
    BY <1>3, TargetType DEF Transfer
  <2>2. \A w \in Users, role \in Roles :
          RoleRow(member[t][w], role).status = member[t][w].status
    BY <2>1 DEF TypeOK, RoleRow, Membership
  <2>3. \A s \in Teams, w \in Users :
          member'[s][w].status = member[s][w].status
    BY <1>3, <2>1, <2>2 DEF TypeOK, Transfer, Roles
  <2>4. \A s \in Teams : team[s].owner # None => team'[s].owner # None
    BY <1>3, <2>1, NoneAssumption DEF TypeOK, Transfer
  <2>5. invite' = invite /\ End(r)
    BY <1>3 DEF Transfer
  <2> QED
    BY <2>3, <2>4, <2>5, EndQuiet DEF Quiet
<1>4. CASE Leave(r)
  BY <1>4, RequestType, HidingQuiet DEF TypeOK, Leave, RemovedRow, Membership, Quiet
<1>5. CASE Deactivate(r)
  BY <1>5, RequestType, EndQuiet DEF TypeOK, Deactivate, Quiet
<1>6. CASE SaveSettings(r)
  <2>1. req[r].owner \in Users
    BY <1>6, ManagementType
       DEF SaveSettings, AllOps, ManagerOps, Management
  <2> QED
    BY <1>6, <2>1, RequestType, EndQuiet, NoneAssumption
       DEF TypeOK, SaveSettings, Quiet
<1> QED
  BY <1>1, <1>2, <1>3, <1>4, <1>5, <1>6

LEMMA QuietRead ==
  ASSUME TypeOK, NEW r \in Requests,
         \/ \E op \in Ops, u \in Users, t \in Teams : Start(r, op, u, t)
         \/ \E v \in Users : ReadTarget(r, v)
         \/ EndRequest(r)
  PROVE  Quiet
<1>1. ASSUME NEW op \in Ops, NEW u \in Users, NEW t \in Teams,
             Start(r, op, u, t)
      PROVE  Quiet
  BY <1>1, OpsAssumption
     DEF TypeOK, Start, Quiet, rows, AllOps, OwnerOps, ManagerOps
<1>2. ASSUME NEW v \in Users, ReadTarget(r, v) PROVE Quiet
  <2>1. req[r] \in Management
    BY <1>2, ManagementType
       DEF ReadTarget, TargetOps, AllOps, OwnerOps, ManagerOps
  <2>2. req'[r].op # "accept" /\ req'[r].invite = None
    BY <1>2, <2>1
       DEF TypeOK, ReadTarget, Management, AllOps, OwnerOps, ManagerOps
  <2> QED
    BY <1>2, <2>2 DEF TypeOK, ReadTarget, Quiet, rows
<1>3. CASE EndRequest(r)
  BY <1>3, EndQuiet DEF EndRequest, Quiet, rows
<1> QED
  BY <1>1, <1>2, <1>3

LEMMA QuietPending ==
  ASSUME TypeOK, Pending, Quiet PROVE Pending' /\ Stays
<1>1. OnePending'
  BY DEF Pending, Quiet, OnePending
<1>2. MemberHasNoPending'
  <2> SUFFICES ASSUME NEW i \in Invitations, invite[i].bound # None
               PROVE  ~Active(invite[i].team, invite[i].bound)'
    BY DEF Quiet, MemberHasNoPending
  <2>1. invite[i].team \in Teams /\ invite[i].bound \in Users
    BY InviteType, NoInviteFields
  <2> QED
    BY <2>1 DEF Quiet, Pending, MemberHasNoPending, Active
<1>3. Stays
  BY DEF Quiet, Stays, Waits, Backed, OpenInvites
<1>4. HeldOnce'
  BY DEF Pending, Quiet, HeldOnce
<1>5. Provenance'
  BY InviteType DEF Pending, Quiet, Provenance
<1> QED
  BY <1>1, <1>2, <1>3, <1>4, <1>5 DEF Pending

-----------------------------------------------------------------------------
(* The steps that are not quiet                                            *)

LEMMA CreatePending ==
  ASSUME TypeOK, Pending, NEW u \in Users, NEW t \in Teams, CreateTeam(u, t)
  PROVE  Pending' /\ Stays
<1>1. \A i \in Invitations : invite[i] # NoInvite => invite[i].team # t
  BY DEF Pending, Provenance, CreateTeam, NoTeam
<1>2. \A s \in Teams, w \in Users :
        <<s, w>> # <<t, u>> => member'[s][w] = member[s][w]
  BY DEF TypeOK, CreateTeam, Written
<1>3. member'[t][u].status = "active"
  BY DEF TypeOK, CreateTeam, Written
<1>4. OnePending'
  BY DEF Pending, OnePending, CreateTeam
<1>5. MemberHasNoPending'
  <2> SUFFICES ASSUME NEW i \in Invitations, invite[i].bound # None
               PROVE  ~Active(invite[i].team, invite[i].bound)'
    BY DEF CreateTeam, MemberHasNoPending
  <2>1. invite[i] # NoInvite
    BY NoInviteFields
  <2>2. invite[i].team \in Teams /\ invite[i].bound \in Users
    BY <2>1, InviteType
  <2> QED
    BY <1>1, <1>2, <2>1, <2>2
       DEF Pending, MemberHasNoPending, CreateTeam, Active
<1>6. Stays
  BY <1>2, <1>3 DEF Stays, Waits, Backed, OpenInvites, CreateTeam
<1>7. HeldOnce'
  BY DEF Pending, HeldOnce, CreateTeam
<1>8. Provenance'
  BY InviteType, NoneAssumption DEF TypeOK, Pending, Provenance, CreateTeam
<1> QED
  BY <1>4, <1>5, <1>6, <1>7, <1>8 DEF Pending

(* Closing invitations that nobody else holds.                             *)
LEMMA CloseFacts ==
  ASSUME NEW S
  PROVE  \A i \in Invitations :
           Close(S)[i] = IF i \in S THEN NoInvite ELSE invite[i]
BY DEF Close

LEMMA AnsweredFacts ==
  ASSUME TypeOK, NEW t \in Teams, NEW u \in Users \cup {None}
  PROVE  /\ \A s \in Teams, w \in Users :
              Answered(t, u)[s][w].status \in {member[s][w].status, "out"}
         /\ u # None => Answered(t, u)[t][u].status # "invited"
BY NoneAssumption DEF TypeOK, Answered, Membership

(* Whoever still holds an invitation held it before, and it is unchanged.   *)
LEMMA HeldKept ==
  ASSUME HeldOnce,
         \A r \in Requests : req'[r].op = "accept" =>
           /\ req'[r] = req[r]
           /\ invite'[req[r].invite] = invite[req[r].invite]
           /\ \A s \in Requests :
                req'[s].invite = req[r].invite => req'[s] = req[s]
  PROVE  HeldOnce'
BY DEF HeldOnce

(* Revoke and Decline: one invitation is closed, and the user it was bound  *)
(* to waits for it no more.                                                *)
LEMMA ClosePending ==
  ASSUME TypeOK, Pending, NEW i \in Invitations, NEW u \in Users \cup {None},
         invite[i] # NoInvite, invite[i].bound \in {None, u}, ~Held(i),
         invite' = Close({i}), member' = Answered(invite[i].team, u),
         team' = team,
         \A r \in Requests :
           req'[r].op = "accept" \/ req'[r].invite # None => req'[r] = req[r]
  PROVE  Pending' /\ Stays
<1>1. \A j \in Invitations :
        invite'[j] = IF j = i THEN NoInvite ELSE invite[j]
  BY CloseFacts
<1>2. invite[i].team \in Teams
  BY InviteType
<1>3. /\ \A s \in Teams, w \in Users :
           member'[s][w].status \in {member[s][w].status, "out"}
      /\ u # None => member'[invite[i].team][u].status # "invited"
  BY <1>2, AnsweredFacts
<1>4. OnePending'
  <2>1. \A j \in Invitations : invite'[j] # NoInvite =>
          invite'[j] = invite[j] /\ invite[j] # NoInvite
    BY <1>1
  <2> QED
    BY <2>1 DEF Pending, OnePending
<1>5. MemberHasNoPending'
  <2> SUFFICES ASSUME NEW j \in Invitations, invite'[j].bound # None
               PROVE  /\ invite'[j] = invite[j]
                      /\ ~Active(invite[j].team, invite[j].bound)'
    BY DEF MemberHasNoPending, Active
  <2>1. invite'[j] = invite[j] /\ invite[j] # NoInvite
    BY <1>1, NoInviteFields
  <2>2. invite[j].team \in Teams /\ invite[j].bound \in Users
    BY <2>1, InviteType
  <2> QED
    BY <1>3, <2>1, <2>2 DEF Pending, MemberHasNoPending, Active
<1>6. Stays
  <2> SUFFICES ASSUME NEW s \in Teams, NEW w \in Users,
                      Waits(s, w)', Backed(s, w) \/ ~Waits(s, w)
               PROVE  Backed(s, w)'
    BY DEF Stays
  <2>0. member'[s][w].status = "invited" /\ Waits(s, w)
    BY <1>3 DEF Waits
  <2>1. PICK j \in Invitations : invite[j].team = s /\ invite[j].bound = w
    BY <2>0 DEF Backed, OpenInvites
  <2>2. j # i
    BY <1>3, <2>0, <2>1, NoneAssumption
  <2> QED
    BY <1>1, <2>1, <2>2 DEF Backed, OpenInvites
<1>7. HeldOnce'
  <2> SUFFICES ASSUME NEW r \in Requests, req'[r].op = "accept"
               PROVE  /\ req'[r] = req[r]
                      /\ invite'[req[r].invite] = invite[req[r].invite]
                      /\ \A s \in Requests :
                           req'[s].invite = req[r].invite => req'[s] = req[s]
    BY HeldKept DEF Pending
  <2>1. req'[r] = req[r] /\ req[r] \in Acceptance
    BY AcceptanceType
  <2>2. req[r].invite \in Invitations
    BY <2>1 DEF Acceptance
  <2>3. req[r].invite # i
    BY DEF Held
  <2> QED
    BY <1>1, <2>1, <2>2, <2>3, NoneAssumption
<1>8. Provenance'
  BY <1>1 DEF Pending, Provenance
<1> QED
  BY <1>4, <1>5, <1>6, <1>7, <1>8 DEF Pending

LEMMA RevokePending ==
  ASSUME TypeOK, Pending, NEW r \in Requests, NEW i \in Invitations,
         Revoke(r, i)
  PROVE  Pending' /\ Stays
<1>1. invite[i].team = req[r].team /\ req[r].team \in Teams
  BY RequestType DEF Revoke, OpenInvites
<1>2. invite[i] # NoInvite
  BY <1>1, NoInviteFields, NoneAssumption
<1>3. invite[i].bound \in Users \cup {None}
  BY <1>2, InviteType
<1> QED
  BY <1>1, <1>2, <1>3, EndQuiet, ClosePending DEF Revoke

LEMMA DeclinePending ==
  ASSUME TypeOK, Pending, NEW u \in Users, NEW i \in Invitations,
         Decline(u, i)
  PROVE  Pending' /\ Stays
BY ClosePending DEF Decline, Acceptable

LEMMA ExpirePending ==
  ASSUME TypeOK, Pending, NEW i \in Invitations, Expire(i)
  PROVE  Pending' /\ Stays
<1>1. \A j \in Invitations :
        /\ invite'[j].team = invite[j].team
        /\ invite'[j].email = invite[j].email
        /\ invite'[j].bound = invite[j].bound
        /\ invite'[j] = NoInvite <=> invite[j] = NoInvite
  BY InviteType, NoInviteFields, NoneAssumption
     DEF TypeOK, Expire, Invitation
<1> QED
  BY <1>1 DEF Expire, Pending, OnePending, MemberHasNoPending, HeldOnce,
              Provenance, Active, Stays, Waits, Backed, OpenInvites

LEMMA CheckPending ==
  ASSUME TypeOK, Pending, NEW r \in Requests, NEW u \in Users,
         NEW i \in Invitations, AcceptCheck(r, u, i)
  PROVE  Pending' /\ Stays
<1>1. HeldOnce'
  BY NoneAssumption
     DEF TypeOK, AcceptCheck, Acceptable, Held, Pending, HeldOnce, rows
<1> QED
  BY <1>1 DEF AcceptCheck, rows, Pending, OnePending, MemberHasNoPending,
              Provenance, Active, Stays, Waits, Backed, OpenInvites

(* Accepting closes every invitation of the team to the user, and no        *)
(* request holds another of them.                                          *)
LEMMA AcceptPending ==
  ASSUME TypeOK, Pending, NEW r \in Requests, AcceptCommit(r)
  PROVE  Pending' /\ Stays
<1> DEFINE t == req[r].team
           u == req[r].user
           i == req[r].invite
           S == Settled(t, u, invite[i].email) \cup {i}
<1>1. /\ req[r] \in Acceptance
      /\ t \in Teams /\ u \in Users /\ i \in Invitations
  BY AcceptanceType DEF AcceptCommit, Acceptance
<1>2. /\ invite[i] # NoInvite
      /\ invite[i].team = t
      /\ invite[i].bound \in {None, u}
      /\ \A s \in Requests : req[s].invite = i => s = r
  BY <1>1 DEF AcceptCommit, Pending, HeldOnce
<1>3. \A j \in Invitations : invite'[j] = IF j \in S THEN NoInvite ELSE invite[j]
  BY CloseFacts DEF AcceptCommit
<1>4. \A j \in S : j \in Invitations /\ invite[j].team = t
                   /\ invite[j].bound \in {None, u}
  BY <1>1, <1>2, NoInviteFields, NoneAssumption
     DEF Settled, OpenInvites, Pending, OnePending
<1>5. \A j \in Invitations :
        invite[j].team = t /\ invite[j].bound = u => j \in S
  BY DEF Settled, OpenInvites
<1>6. member'[t][u].status = "active"
      /\ \A s \in Teams, w \in Users :
           <<s, w>> # <<t, u>> => member'[s][w] = member[s][w]
  BY <1>1 DEF TypeOK, AcceptCommit, Written
<1>7. team' = team
  BY DEF AcceptCommit
<1>8. \A s \in Requests :
        req'[s].op = "accept" \/ req'[s].invite # None =>
          req'[s] = req[s] /\ s # r
  BY DEF TypeOK, AcceptCommit, End, NoRequest
<1>9. \A j \in S \ {i} : ~Held(j)
  BY DEF AcceptCommit
<1> HIDE DEF S
<1>10. OnePending'
  BY <1>3 DEF Pending, OnePending
<1>11. MemberHasNoPending'
  <2> SUFFICES ASSUME NEW j \in Invitations, invite'[j].bound # None
               PROVE  /\ invite'[j] = invite[j]
                      /\ ~Active(invite[j].team, invite[j].bound)'
    BY DEF MemberHasNoPending, Active
  <2>1. invite'[j] = invite[j] /\ invite[j] # NoInvite /\ j \notin S
    BY <1>3, NoInviteFields
  <2>2. invite[j].team \in Teams /\ invite[j].bound \in Users
    BY <2>1, InviteType
  <2>3. <<invite[j].team, invite[j].bound>> # <<t, u>>
    BY <1>5, <2>1
  <2> QED
    BY <1>6, <2>1, <2>2, <2>3 DEF Pending, MemberHasNoPending, Active
<1>12. Stays
  <2> SUFFICES ASSUME NEW s \in Teams, NEW w \in Users,
                      Waits(s, w)', Backed(s, w) \/ ~Waits(s, w)
               PROVE  Backed(s, w)'
    BY DEF Stays
  <2>1. <<s, w>> # <<t, u>> /\ Waits(s, w)
    BY <1>6 DEF Waits
  <2>2. PICK j \in Invitations : invite[j].team = s /\ invite[j].bound = w
    BY <2>1 DEF Backed, OpenInvites
  <2>3. j \notin S
    BY <1>4, <2>1, <2>2, NoneAssumption
  <2> QED
    BY <1>3, <2>2, <2>3 DEF Backed, OpenInvites
<1>13. HeldOnce'
  <2> SUFFICES ASSUME NEW s \in Requests, req'[s].op = "accept"
               PROVE  /\ req'[s] = req[s]
                      /\ invite'[req[s].invite] = invite[req[s].invite]
                      /\ \A q \in Requests :
                           req'[q].invite = req[s].invite => req'[q] = req[q]
    BY HeldKept DEF Pending
  <2>1. req'[s] = req[s] /\ s # r /\ req[s] \in Acceptance
    BY <1>8, AcceptanceType
  <2>2. req[s].invite \in Invitations
    BY <2>1 DEF Acceptance
  <2>3. req[s].invite \notin S
    BY <1>2, <1>9, <2>1 DEF Held
  <2> QED
    BY <1>3, <1>8, <2>1, <2>2, <2>3, NoneAssumption
<1>14. Provenance'
  BY <1>3, <1>7 DEF Pending, Provenance
<1> QED
  BY <1>10, <1>11, <1>12, <1>13, <1>14 DEF Pending

(* Inviting replaces what was open for the address, and the account it is   *)
(* bound to is an active member of no active team.                         *)
LEMMA InvitePending ==
  ASSUME TypeOK, Pending, NEW r \in Requests, NEW e \in Invitees,
         NEW i \in Invitations, Invite(r, e, i)
  PROVE  Pending' /\ Stays
<1> DEFINE t == req[r].team
           u == holder[e]
           S == Replaced(t, e)
           new == [team |-> t, email |-> e, bound |-> u, expired |-> FALSE]
<1>1. t \in Teams /\ e \in Emails /\ u \in Users \cup {None}
  BY RequestType, EmailsAssumption DEF TypeOK, Invite
<1>2. invite[i] = NoInvite /\ i \notin S
  BY <1>1, NoInviteFields, NoneAssumption DEF Invite, Replaced, OpenInvites
<1>3. \A j \in Invitations :
        invite'[j] = IF j = i THEN new
                              ELSE IF j \in S THEN NoInvite ELSE invite[j]
  BY DEF Invite, Close
<1>4. \A j \in S : j \in Invitations /\ invite[j].team = t /\ invite[j].email = e
                   /\ ~Held(j)
  BY DEF Invite, Replaced, OpenInvites
<1>5. \A j \in Invitations : invite[j].team = t /\ invite[j].email = e => j \in S
  BY DEF Replaced, OpenInvites
<1>6. u # None => /\ team[t].active
                  /\ ~Active(t, u)
                  /\ member'[t][u].status = "invited"
  BY <1>1 DEF TypeOK, Invite, MayInvite, ActiveTeams, Written
<1>7. \A s \in Teams, w \in Users :
        <<s, w>> # <<t, u>> => member'[s][w] = member[s][w]
  BY <1>1, NoneAssumption DEF TypeOK, Invite, Written
<1>8. team' = team /\ team[t].owner # None
  BY <1>1, NoneAssumption DEF TypeOK, Invite, TeamRow, NoTeam
<1>9. \A s \in Requests :
        req'[s].op = "accept" \/ req'[s].invite # None => req'[s] = req[s]
  BY EndQuiet DEF Invite
<1>10. u = holder[e]
  OBVIOUS
<1>11. new # NoInvite /\ new.team = t /\ new.email = e /\ new.bound = u
  BY <1>1, NoneAssumption DEF NoInvite
<1> HIDE DEF S, u, new
<1>12. OnePending'
  <2> SUFFICES ASSUME NEW j \in Invitations, NEW k \in Invitations, j # k,
                      invite'[j] # NoInvite, invite'[k] # NoInvite,
                      invite'[j].team = invite'[k].team,
                      invite'[j].email = invite'[k].email
               PROVE  FALSE
    BY DEF OnePending
  <2>1. CASE j # i /\ k # i
    BY <1>3, <2>1 DEF Pending, OnePending
  <2>2. CASE j = i \/ k = i
    BY <1>3, <1>5, <1>11, <2>2
  <2> QED
    BY <2>1, <2>2
<1>13. MemberHasNoPending'
  <2> SUFFICES ASSUME NEW j \in Invitations, invite'[j].bound # None
               PROVE  member'[invite'[j].team][invite'[j].bound].status
                        # "active"
    BY DEF MemberHasNoPending, Active
  <2>1. CASE j = i
    BY <1>3, <1>6, <1>11, <2>1
  <2>2. CASE j # i
    <3>1. invite'[j] = invite[j] /\ invite[j] # NoInvite
      BY <1>3, <2>2, NoInviteFields
    <3>2. invite[j].team \in Teams /\ invite[j].bound \in Users
      BY <3>1, InviteType
    <3>3. member[invite[j].team][invite[j].bound].status # "active"
      BY <3>1, <3>2, NoneAssumption DEF Pending, MemberHasNoPending, Active
    <3>4. CASE <<invite[j].team, invite[j].bound>> = <<t, u>>
      BY <1>6, <3>1, <3>2, <3>4, NoneAssumption
    <3>5. CASE <<invite[j].team, invite[j].bound>> # <<t, u>>
      BY <1>7, <3>1, <3>2, <3>3, <3>5
    <3> QED
      BY <3>4, <3>5
  <2> QED
    BY <2>1, <2>2
<1>14. Stays
  <2> SUFFICES ASSUME NEW s \in Teams, NEW w \in Users,
                      Waits(s, w)', Backed(s, w) \/ ~Waits(s, w)
               PROVE  Backed(s, w)' \/ AddressLost(s, w)
    BY DEF Stays
  <2>1. CASE s = t /\ w = u
    BY <1>3, <1>11, <2>1 DEF Backed, OpenInvites
  <2>2. CASE <<s, w>> # <<t, u>>
    <3>1. Waits(s, w)
      BY <1>7, <2>2 DEF Waits
    <3>2. PICK j \in Invitations : invite[j].team = s /\ invite[j].bound = w
      BY <3>1 DEF Backed, OpenInvites
    <3>3. j # i
      BY <1>2, <3>2, NoInviteFields, NoneAssumption
    <3>4. CASE j \notin S
      BY <1>3, <3>2, <3>3, <3>4 DEF Backed, OpenInvites
    <3>5. CASE j \in S
      <4>1. invite[j].email = e /\ s = t /\ w # u
        BY <1>4, <2>2, <3>2, <3>5
      <4>2. holder[invite[j].email] # w
        BY <1>10, <4>1
      <4>3. invite'[i] # invite[i] /\ invite'[i].team = s /\ invite'[i].email = e
        BY <1>2, <1>3, <1>11, <4>1
      <4> QED
        BY <3>2, <4>1, <4>2, <4>3 DEF AddressLost
    <3> QED
      BY <3>4, <3>5
  <2> QED
    BY <2>1, <2>2
<1>15. HeldOnce'
  <2> SUFFICES ASSUME NEW s \in Requests, req'[s].op = "accept"
               PROVE  /\ req'[s] = req[s]
                      /\ invite'[req[s].invite] = invite[req[s].invite]
                      /\ \A q \in Requests :
                           req'[q].invite = req[s].invite => req'[q] = req[q]
    BY HeldKept DEF Pending
  <2>1. req'[s] = req[s] /\ req[s] \in Acceptance
    BY <1>9, AcceptanceType
  <2>2. req[s].invite \in Invitations
    BY <2>1 DEF Acceptance
  <2>3. req[s].invite # i /\ req[s].invite \notin S
    BY <1>2, <1>4, <2>1 DEF Held, Pending, HeldOnce
  <2> QED
    BY <1>3, <1>9, <2>1, <2>2, <2>3, NoneAssumption
<1>16. Provenance'
  BY <1>3, <1>8, <1>11 DEF Pending, Provenance
<1> QED
  BY <1>12, <1>13, <1>14, <1>15, <1>16 DEF Pending

-----------------------------------------------------------------------------
(* The theorems                                                            *)

LEMMA PendingInit == Init => Pending
BY NoneAssumption
   DEF Init, Pending, OnePending, MemberHasNoPending, HeldOnce,
       Provenance, NoInvite, NoRequest

LEMMA PendingNext == TypeOK /\ Pending /\ [Next]_vars => Pending' /\ Stays
<1> SUFFICES ASSUME TypeOK, Pending, [Next]_vars PROVE Pending' /\ Stays
  OBVIOUS
<1>1. ASSUME NEW u \in Users, NEW t \in Teams, CreateTeam(u, t)
      PROVE  Pending' /\ Stays
  BY <1>1, CreatePending
<1>2. ASSUME NEW r \in Requests, RequestStep(r) PROVE Pending' /\ Stays
  <2>1. CASE Write(r)
    BY <2>1, QuietWrite, QuietPending, AcceptPending, InvitePending,
       RevokePending DEF Write
  <2>2. CASE \E u \in Users, i \in Invitations : AcceptCheck(r, u, i)
    BY <2>2, CheckPending
  <2> QED
    BY <1>2, <2>1, <2>2, QuietRead, QuietPending DEF RequestStep
<1>3. ASSUME NEW u \in Users, NEW i \in Invitations, Decline(u, i)
      PROVE  Pending' /\ Stays
  BY <1>3, DeclinePending
<1>4. CASE Environment
  <2>1. ASSUME NEW e \in Emails, LoseEmail(e) \/ \E u \in Users : VerifyEmail(e, u)
        PROVE  Quiet
    BY <2>1 DEF LoseEmail, VerifyEmail, rows, Quiet
  <2>2. ASSUME NEW u \in Users, GainPro(u) \/ LosePro(u) PROVE Quiet
    BY <2>2 DEF GainPro, LosePro, rows, Quiet
  <2> QED
    BY <1>4, <2>1, <2>2, QuietPending, ExpirePending DEF Environment
<1>5. CASE UNCHANGED vars
  BY <1>5, QuietPending DEF vars, Quiet
<1> QED
  BY <1>1, <1>2, <1>3, <1>4, <1>5 DEF Next

THEOREM PendingCorrect == Spec => []Pending
<1>1. Init => TypeOK /\ Pending
  BY TypeInit, PendingInit
<1>2. TypeOK /\ Pending /\ [Next]_vars => (TypeOK /\ Pending)'
  BY TypeNext, PendingNext
<1> QED
  BY <1>1, <1>2, PTL DEF Spec

(* An address never has two open invitations to a team.                    *)
THEOREM OnePendingCorrect == Spec => []OnePending
<1>1. Pending => OnePending
  BY DEF Pending
<1> QED
  BY <1>1, PendingCorrect, PTL

(* Active members of a team have no open invitation bound to them there.   *)
THEOREM MemberHasNoPendingCorrect == Spec => []MemberHasNoPending
<1>1. Pending => MemberHasNoPending
  BY DEF Pending
<1> QED
  BY <1>1, PendingCorrect, PTL

(* A membership that waits for an answer has an open invitation, and loses *)
(* it only with the address it was sent to.                                *)
THEOREM StaysBackedCorrect == Spec => StaysBacked
<1>1. TypeOK /\ Pending /\ [Next]_vars => Stays
  BY PendingNext
<1>2. Spec => [][Stays]_vars
  BY <1>1, TypeCorrect, PendingCorrect, PTL DEF Spec
<1> QED
  BY <1>2 DEF StaysBacked, Stays

(* An invitation is answered by one request at a time.                     *)
THEOREM HeldOnceCorrect == Spec => []HeldOnce
<1>1. Pending => HeldOnce
  BY DEF Pending
<1> QED
  BY <1>1, PendingCorrect, PTL

(* Who becomes an active member creates the team or accepts an invitation. *)
LEMMA JoinCases ==
  ASSUME TypeOK, [Next]_vars, NEW t \in Teams, NEW u \in Users, Joins(t, u)
  PROVE  \/ CreateTeam(u, t)
         \/ \E r \in Requests :
              AcceptCommit(r) /\ req[r].team = t /\ req[r].user = u
<1>1. ASSUME NEW v \in Users, NEW s \in Teams, CreateTeam(v, s)
      PROVE  CreateTeam(u, t)
  BY <1>1 DEF TypeOK, CreateTeam, Written, Joins, Active
<1>2. ~Quiet
  BY DEF Quiet, Joins, Active
<1>3. ASSUME NEW r \in Requests, NEW e \in Invitees, NEW i \in Invitations
      PROVE  ~Invite(r, e, i)
  BY DEF TypeOK, Invite, Written, Joins, Active
<1>4. ASSUME NEW s \in Teams, NEW w \in Users \cup {None},
             member' = Answered(s, w)
      PROVE  FALSE
  BY <1>4, AnsweredFacts DEF Joins, Active
<1>5. ASSUME NEW r \in Requests, NEW i \in Invitations PROVE ~Revoke(r, i)
  <2>1. invite[i].bound \in Users \cup {None}
    BY DEF TypeOK, Invitation, NoInvite
  <2> QED
    BY <1>4, <2>1, RequestType DEF Revoke
<1>6. ASSUME NEW w \in Users, NEW i \in Invitations PROVE ~Decline(w, i)
  BY <1>4, InviteType DEF Decline, Acceptable
<1>7. ASSUME NEW r \in Requests, AcceptCommit(r)
      PROVE  req[r].team = t /\ req[r].user = u
  BY <1>7, RequestType DEF TypeOK, AcceptCommit, Written, Joins, Active
<1>8. member' # member
  BY DEF Joins, Active
<1>9. ASSUME NEW r \in Requests, RequestStep(r) PROVE AcceptCommit(r)
  BY <1>2, <1>3, <1>5, <1>8, <1>9, QuietWrite, QuietRead
     DEF RequestStep, Write, AcceptCheck, rows
<1>10. ~Environment
  BY <1>8 DEF Environment, Expire, LoseEmail, VerifyEmail, GainPro, LosePro, rows
<1> QED
  BY <1>1, <1>6, <1>7, <1>8, <1>9, <1>10 DEF Next, vars

(* The one-active-team policy, for every way to join.                      *)
THEOREM JoinsOneTeamCorrect == Spec => JoinsOneTeam
<1> DEFINE Step == \A t \in Teams, u \in Users :
                     Joins(t, u) /\ team'[t].active => ActiveTeams(u)' = {t}
<1>1. ASSUME TypeOK, [Next]_vars PROVE Step
  <2> SUFFICES ASSUME NEW t \in Teams, NEW u \in Users,
                      Joins(t, u), team'[t].active
               PROVE  ActiveTeams(u)' = {t}
    OBVIOUS
  <2>1. CASE CreateTeam(u, t)
    BY <1>1, <2>1
       DEF TypeOK, CreateTeam, MayCreate, ActiveTeams, Active, Written
  <2>2. ASSUME NEW r \in Requests, AcceptCommit(r),
               req[r].team = t, req[r].user = u
        PROVE  ActiveTeams(u)' = {t}
    BY <1>1, <2>2
       DEF TypeOK, AcceptCommit, MayJoin, ActiveTeams, Active, Written
  <2> QED
    BY <1>1, <2>1, <2>2, JoinCases
<1>2. Spec => [][Step]_vars
  BY <1>1, TypeCorrect, PTL DEF Spec
<1> QED
  BY <1>2 DEF JoinsOneTeam

(* Who is out comes in only by a team or an acceptance of his own.         *)
THEOREM OutStaysOutCorrect == Spec => OutStaysOut
<1> DEFINE Step == \A t \in Teams, u \in Users :
       Joins(t, u) =>
         \/ team[t] = NoTeam /\ team'[t].owner = u
         \/ \E r \in Requests :
              /\ req[r].op = "accept" /\ req[r].user = u
              /\ req[r].invite \in OpenInvites(t)
              /\ invite[req[r].invite].bound \in {None, u}
              /\ invite'[req[r].invite] = NoInvite
<1>1. ASSUME TypeOK, Pending, [Next]_vars PROVE Step
  <2> SUFFICES ASSUME NEW t \in Teams, NEW u \in Users, Joins(t, u),
                      ~(team[t] = NoTeam /\ team'[t].owner = u)
               PROVE  \E r \in Requests :
                        /\ req[r].op = "accept" /\ req[r].user = u
                        /\ req[r].invite \in OpenInvites(t)
                        /\ invite[req[r].invite].bound \in {None, u}
                        /\ invite'[req[r].invite] = NoInvite
    OBVIOUS
  <2>1. ~CreateTeam(u, t)
    BY <1>1 DEF TypeOK, CreateTeam
  <2>2. PICK r \in Requests : AcceptCommit(r) /\ req[r].team = t /\ req[r].user = u
    BY <1>1, <2>1, JoinCases
  <2>3. req[r].op = "accept" /\ req[r].invite \in Invitations
    BY <1>1, <2>2, AcceptanceType DEF AcceptCommit, Acceptance
  <2>4. invite'[req[r].invite] = NoInvite
    BY <2>2, <2>3, CloseFacts DEF AcceptCommit
  <2> QED
    BY <1>1, <2>2, <2>3, <2>4 DEF Pending, HeldOnce, OpenInvites
<1>2. Spec => [][Step]_vars
  BY <1>1, TypeCorrect, PendingCorrect, PTL DEF Spec
<1> QED
  BY <1>2 DEF OutStaysOut

-----------------------------------------------------------------------------
(* The steps that write a comment.                                         *)
Writing(w) ==
  \/ \E c \in Comments : PostComment(w, c)
  \/ SaveComment(w)
  \/ DeleteComment(w)
  \/ HideComment(w)

(* What a request about sales or the feed leaves alone.                    *)
LEMMA Frames ==
  ASSUME NEW w \in Workers, FeedStep(w)
  PROVE  UNCHANGED vars /\ (UNCHANGED comment \/ Writing(w))
<1>1. ASSUME NEW s \in Sales, NEW n \in Units, AddSale(w, s, n) \/ EditSale(w, s, n)
      PROVE  UNCHANGED <<vars, comment>>
  BY <1>1 DEF AddSale, EditSale
<1>2. CASE Synchronize(w)
  BY <1>2 DEF Synchronize
<1>3. CASE SaveSale(w)
  BY <1>3 DEF SaveSale
<1>4. ASSUME NEW u \in Users, NEW t \in Teams, NEW a \in Activities,
             OpenActivity(w, u, t, a) \/ \E c \in Comments : OpenComment(w, u, t, a, c)
      PROVE  UNCHANGED <<vars, comment>>
  BY <1>4 DEF OpenActivity, OpenComment, OnFeed
<1>5. CASE Writing(w)
  BY <1>5 DEF Writing, PostComment, SaveComment, DeleteComment, HideComment, Cleared
<1>6. CASE EndWork(w)
  BY <1>6 DEF EndWork
<1>7. \/ \E s \in Sales, n \in Units : AddSale(w, s, n) \/ EditSale(w, s, n)
      \/ Synchronize(w)
      \/ SaveSale(w)
      \/ \E u \in Users, t \in Teams, a \in Activities :
           OpenActivity(w, u, t, a) \/ \E c \in Comments : OpenComment(w, u, t, a, c)
      \/ Writing(w)
      \/ EndWork(w)
  BY DEF FeedStep, Writing
<1> QED
  BY <1>1, <1>2, <1>3, <1>4, <1>5, <1>6, <1>7

(* Hiding the activities of a member who goes ends his request.            *)
LEMMA HidingEnds ==
  ASSUME NEW r \in Requests, HideActivities(r) PROVE EndRequest(r) /\ UNCHANGED comment
BY DEF HideActivities, EndRequest, NoRequest

(* The feed leaves teams and members alone: with it every behaviour is one *)
(* of TeamMembers, and all its theorems hold here.                         *)
THEOREM FeedImplementsMembers == FeedSpec => Spec
<1>1. FeedInit => Init
  BY DEF FeedInit
<1>2. [FeedNext]_feedVars => [Next]_vars
  <2>1. ASSUME NEW s \in Sales, DeleteSale(s) PROVE UNCHANGED vars
    BY <2>1 DEF DeleteSale
  <2>2. ASSUME NEW r \in Requests, HideActivities(r) PROVE Next
    BY <2>2, HidingEnds DEF Next, RequestStep
  <2> QED
    BY <2>1, <2>2, Frames DEF FeedNext, feedVars
<1> QED
  BY <1>1, <1>2, PTL DEF FeedSpec, Spec

(* The same for joining: sales, activities and comments open no way into a *)
(* second active team.                                                     *)
THEOREM FeedJoinsOneTeam == FeedSpec => JoinsOneTeam
BY FeedImplementsMembers, JoinsOneTeamCorrect

-----------------------------------------------------------------------------
(* Activities                                                              *)

ActivityRow ==
  [sale : Sales \cup {None}, user : Users \cup {None}, team : Teams \cup {None},
   units : Units \cup {None}, visible : BOOLEAN]

WorkRow ==
  [op : {"none", "save", "sync", "comment", "edit", "delete", "hide"},
   user : Users \cup {None}, team : Teams \cup {None}, sale : Sales \cup {None},
   units : Units \cup {None}, activity : Activities \cup {None},
   comment : Comments \cup {None}]

FeedType ==
  /\ sale \in [Sales -> Units \cup {None}]
  /\ activity \in [Activities -> ActivityRow]
  /\ work \in [Workers -> WorkRow]

(* A request that saves a sale knows which, and its credit.                *)
SavesSale ==
  \A w \in Workers : work[w].op \in {"save", "sync"} =>
    work[w].sale \in Sales /\ work[w].units \in Units

(* No two rows are linked to one sale, hidden ones included.               *)
LinkedOnce ==
  \A a, b \in Activities :
    activity[a].sale # None /\ activity[a].sale = activity[b].sale => a = b

(* A visible row has the credit of its sale.                               *)
VisibleCurrent ==
  \A a \in Activities : activity[a].visible =>
    activity[a].sale # None /\ sale[activity[a].sale] = activity[a].units

IInv == FeedType /\ SavesSale /\ LinkedOnce /\ VisibleCurrent

LEMMA FeedInitial == FeedInit => IInv
BY DEF FeedInit, IInv, FeedType, SavesSale, LinkedOnce, VisibleCurrent, NoActivity, NoWork,
       ActivityRow, WorkRow

LEMMA NoWorkRow == NoWork \in WorkRow
BY DEF NoWork, WorkRow

(* Ending a request keeps what is known of the others.                     *)
LEMMA FinishKeeps ==
  ASSUME IInv, NEW w \in Workers, Finish(w)
  PROVE  work' \in [Workers -> WorkRow] /\ SavesSale'
<1>1. work' = [work EXCEPT ![w] = NoWork] /\ work' \in [Workers -> WorkRow]
  BY NoWorkRow DEF IInv, FeedType, Finish
<1>2. \A x \in Workers : work'[x] = IF x = w THEN NoWork ELSE work[x]
  BY <1>1 DEF IInv, FeedType
<1> QED
  BY <1>1, <1>2 DEF IInv, SavesSale, NoWork

(* A step that leaves the sales and the activities alone.                  *)
LEMMA QuietFeed ==
  ASSUME IInv, UNCHANGED <<sale, activity>>, work' \in [Workers -> WorkRow], SavesSale'
  PROVE  IInv'
BY DEF IInv, FeedType, LinkedOnce, VisibleCurrent

LEMMA OpenKeeps ==
  ASSUME IInv, NEW w \in Workers, NEW u \in Users, NEW t \in Teams, NEW a \in Activities,
         NEW c \in Comments \cup {None}, NEW op \in {"comment", "edit", "delete", "hide"},
         OnFeed(w, op, u, t, a, c)
  PROVE  IInv'
<1> DEFINE row == [NoWork EXCEPT !.op = op, !.user = u, !.team = t,
                                 !.activity = a, !.comment = c]
<1>1. row \in WorkRow /\ row.op = op
  BY DEF NoWork, WorkRow
<1>2. work' = [work EXCEPT ![w] = row] /\ UNCHANGED <<sale, activity>>
  BY DEF OnFeed
<1> HIDE DEF row
<1>3. work' \in [Workers -> WorkRow]
  BY <1>1, <1>2 DEF IInv, FeedType
<1>4. SavesSale'
  BY <1>1, <1>2 DEF IInv, FeedType, SavesSale
<1> QED
  BY <1>2, <1>3, <1>4, QuietFeed

LEMMA SavingKeeps ==
  ASSUME IInv, NEW w \in Workers, NEW s \in Sales, NEW n \in Units,
         Saving(w, s, n), UNCHANGED <<sale, activity>>
  PROVE  IInv'
<1> DEFINE row == [NoWork EXCEPT !.op = "save", !.sale = s, !.units = n]
<1>1. row \in WorkRow /\ row.sale = s /\ row.units = n
  BY DEF NoWork, WorkRow
<1>2. work' = [work EXCEPT ![w] = row]
  BY DEF Saving
<1> HIDE DEF row
<1>3. work' \in [Workers -> WorkRow]
  BY <1>1, <1>2 DEF IInv, FeedType
<1>4. SavesSale'
  BY <1>1, <1>2 DEF IInv, FeedType, SavesSale
<1> QED
  BY <1>3, <1>4, QuietFeed

LEMMA SynchronizeKeeps ==
  ASSUME IInv, NEW w \in Workers, Synchronize(w)
  PROVE  IInv'
<1>1. PICK t \in Teams \cup {None} :
        work' = [work EXCEPT ![w].op = "sync", ![w].team = t]
  BY DEF Synchronize, ActiveTeams
<1>2. work' \in [Workers -> WorkRow]
  BY <1>1 DEF IInv, FeedType, WorkRow
<1>3. \A x \in Workers : /\ work'[x].sale = work[x].sale
                         /\ work'[x].units = work[x].units
                         /\ x # w => work'[x] = work[x]
  BY <1>1 DEF IInv, FeedType, WorkRow
<1>4. SavesSale'
  BY <1>3 DEF IInv, SavesSale, Synchronize
<1> QED
  BY <1>2, <1>4, QuietFeed DEF Synchronize

(* A row that update_or_create may write is the only one of its sale.      *)
LEMMA TargetAlone ==
  ASSUME IInv, NEW s \in Sales, NEW a \in Activities, SyncTarget(s, a),
         NEW b \in Activities, activity[b].sale = s
  PROVE  b = a
BY SalesAssumption DEF IInv, LinkedOnce, SyncTarget, ActivitiesOf

LEMMA SaveKeeps ==
  ASSUME IInv, NEW w \in Workers, SaveSale(w)
  PROVE  IInv'
<1> DEFINE s == work[w].sale
           n == work[w].units
           t == work[w].team
<1>1. /\ s \in Sales
      /\ n \in Units
      /\ t \in Teams \cup {None}
  BY DEF IInv, SavesSale, SaveSale, FeedType, WorkRow
<1>2. sale' = [sale EXCEPT ![s] = n] /\ Finish(w)
  BY DEF SaveSale
<1>3. sale' \in [Sales -> Units \cup {None}]
  BY <1>1, <1>2 DEF IInv, FeedType
<1>4. work' \in [Workers -> WorkRow] /\ SavesSale'
  BY <1>2, FinishKeeps
<1> HIDE DEF s, n, t
<1>5. s # None
  BY <1>1, SalesAssumption
<1>6. CASE t = None
  <2>1. activity' = Hidden(s)
    BY <1>6 DEF SaveSale, s, t
  <2>2. \A b \in Activities :
          /\ activity'[b] \in ActivityRow
          /\ activity'[b].sale = activity[b].sale
          /\ activity'[b].units = activity[b].units
          /\ activity'[b].visible => activity[b].visible /\ activity[b].sale # s
    BY <2>1 DEF Hidden, IInv, FeedType, ActivityRow
  <2>3. activity' \in [Activities -> ActivityRow]
    BY <2>1, <2>2 DEF Hidden
  <2>4. LinkedOnce'
    BY <2>2 DEF IInv, LinkedOnce
  <2>5. VisibleCurrent'
    BY <2>2, <1>1, <1>2 DEF IInv, VisibleCurrent, FeedType, ActivityRow
  <2> QED
    BY <1>3, <1>4, <2>3, <2>4, <2>5 DEF IInv, FeedType
<1>7. CASE t # None
  <2>1. PICK a \in Activities :
          SyncTarget(s, a) /\ activity' = [activity EXCEPT ![a] = SyncedRow(@, s, t, n)]
    BY <1>7 DEF SaveSale, s, t, n
  <2> DEFINE row == [sale |-> s, user |-> Seller[s], team |-> t, units |-> n, visible |-> TRUE]
  <2>2. activity' = [activity EXCEPT ![a] = row]
    BY <2>1 DEF SyncedRow
  <2>3. row \in ActivityRow /\ row.sale = s /\ row.units = n
    BY <1>1, SalesAssumption DEF ActivityRow
  <2> HIDE DEF row
  <2>4. activity' \in [Activities -> ActivityRow]
    BY <2>2, <2>3 DEF IInv, FeedType
  <2>5. \A b \in Activities : activity'[b] = IF b = a THEN row ELSE activity[b]
    BY <2>2 DEF IInv, FeedType
  <2>6. \A b \in Activities : b # a => activity[b].sale # s
    BY <2>1, <1>1, TargetAlone
  <2>7. LinkedOnce'
    BY <2>3, <2>5, <2>6 DEF IInv, LinkedOnce
  <2>8. VisibleCurrent'
    BY <2>3, <2>5, <2>6, <1>1, <1>2, <1>5 DEF IInv, VisibleCurrent, FeedType, ActivityRow
  <2> QED
    BY <1>3, <1>4, <2>4, <2>7, <2>8 DEF IInv, FeedType
<1> QED
  BY <1>6, <1>7

LEMMA DeleteKeeps ==
  ASSUME IInv, NEW s \in Sales, DeleteSale(s)
  PROVE  IInv'
<1>1. sale' = [sale EXCEPT ![s] = None] /\ UNCHANGED work
  BY DEF DeleteSale
<1>2. sale' \in [Sales -> Units \cup {None}]
  BY <1>1 DEF IInv, FeedType
<1>3. \A b \in Activities :
        /\ activity'[b] \in ActivityRow
        /\ activity'[b].sale # None => activity'[b].sale = activity[b].sale
        /\ activity'[b].units = activity[b].units
        /\ activity'[b].visible =>
             activity[b].visible /\ activity[b].sale # s /\ activity'[b].sale = activity[b].sale
  BY DEF DeleteSale, IInv, FeedType, ActivityRow
<1>4. activity' \in [Activities -> ActivityRow]
  BY <1>3 DEF DeleteSale
<1>5. LinkedOnce'
  BY <1>3 DEF IInv, LinkedOnce
<1>6. VisibleCurrent'
  BY <1>1, <1>3 DEF IInv, VisibleCurrent, FeedType, ActivityRow
<1>7. SavesSale'
  BY <1>1 DEF IInv, SavesSale
<1> QED
  BY <1>1, <1>2, <1>4, <1>5, <1>6, <1>7 DEF IInv, FeedType

(* Hiding rows keeps the others as they are.                               *)
LEMMA HidingKeeps ==
  ASSUME IInv, NEW r \in Requests, HideActivities(r)
  PROVE  IInv'
<1>1. activity' = MemberHidden(req[r].team, req[r].user) /\ UNCHANGED <<sale, work>>
  BY DEF HideActivities
<1>2. \A b \in Activities :
        /\ activity'[b] \in ActivityRow
        /\ activity'[b].sale = activity[b].sale
        /\ activity'[b].units = activity[b].units
        /\ activity'[b].visible => activity[b].visible
  BY <1>1 DEF MemberHidden, IInv, FeedType, ActivityRow
<1>3. activity' \in [Activities -> ActivityRow]
  BY <1>1, <1>2 DEF MemberHidden
<1> QED
  BY <1>1, <1>2, <1>3 DEF IInv, FeedType, SavesSale, LinkedOnce, VisibleCurrent

(* The steps about comments.                                               *)
LEMMA CommentKeeps ==
  ASSUME IInv, NEW w \in Workers,
         \/ \E c \in Comments : PostComment(w, c)
         \/ SaveComment(w)
         \/ DeleteComment(w)
         \/ HideComment(w)
         \/ EndWork(w)
  PROVE  IInv'
<1>1. Finish(w) /\ UNCHANGED <<sale, activity>>
  BY DEF PostComment, SaveComment, DeleteComment, HideComment, Cleared, EndWork
<1> QED
  BY <1>1, FinishKeeps, QuietFeed

LEMMA Inductive == IInv /\ [FeedNext]_feedVars => IInv'
<1> SUFFICES ASSUME IInv, [FeedNext]_feedVars PROVE IInv'
  OBVIOUS
<1>1. CASE UNCHANGED feed
  BY <1>1 DEF feed, IInv, FeedType, SavesSale, LinkedOnce, VisibleCurrent
<1>2. ASSUME NEW s \in Sales, DeleteSale(s) PROVE IInv'
  BY <1>2, DeleteKeeps
<1>4. ASSUME NEW r \in Requests, HideActivities(r) PROVE IInv'
  BY <1>4, HidingKeeps
<1>3. ASSUME NEW w \in Workers, FeedStep(w) PROVE IInv'
  <2>1. ASSUME NEW s \in Sales, NEW n \in Units, AddSale(w, s, n) \/ EditSale(w, s, n)
        PROVE  IInv'
    BY <2>1, SavingKeeps DEF AddSale, EditSale
  <2>2. ASSUME NEW u \in Users, NEW t \in Teams, NEW a \in Activities,
               OpenActivity(w, u, t, a)
        PROVE  IInv'
    BY <2>2, OpenKeeps DEF OpenActivity
  <2>3. ASSUME NEW u \in Users, NEW t \in Teams, NEW a \in Activities, NEW c \in Comments,
               OpenComment(w, u, t, a, c)
        PROVE  IInv'
    BY <2>3, OpenKeeps DEF OpenComment
  <2> QED
    BY <1>3, <2>1, <2>2, <2>3, SynchronizeKeeps, SaveKeeps, CommentKeeps DEF FeedStep
<1> QED
  BY <1>1, <1>2, <1>3, <1>4 DEF FeedNext, feedVars, feed

(* The feed shows sales that exist, once and as they are.                  *)
THEOREM ActivityCurrentCorrect == FeedSpec => []ActivityCurrent
<1>1. IInv => ActivityCurrent
  BY DEF IInv, LinkedOnce, VisibleCurrent, ActivityCurrent, ActivitiesOf
<1> QED
  BY <1>1, FeedInitial, Inductive, PTL DEF FeedSpec

-----------------------------------------------------------------------------
(* Comments                                                                *)

CommentRow ==
  [activity : Activities \cup {None}, team : Teams \cup {None},
   author : Users \cup {None}, status : {"none", "shown", "deleted", "hidden"},
   text : BOOLEAN]

CommentType == comment \in [Comments -> CommentRow]

LEMMA CommentInitial == FeedInit => CommentType
BY DEF FeedInit, CommentType, CommentRow, NoComment

LEMMA CommentSteps ==
  ASSUME [FeedNext]_feedVars
  PROVE  UNCHANGED comment \/ \E w \in Workers : Writing(w)
BY Frames, HidingEnds DEF FeedNext, feedVars, feed, DeleteSale

LEMMA WritingKeeps ==
  ASSUME IInv, CommentType, NEW w \in Workers, Writing(w)
  PROVE  /\ CommentType'
         /\ \A c \in Comments :
              comment[c].status \in {"deleted", "hidden"} =>
                comment'[c].status = comment[c].status
<1>1. ASSUME NEW c \in Comments, PostComment(w, c)
      PROVE  /\ CommentType'
             /\ \A d \in Comments :
                  comment[d].status \in {"deleted", "hidden"} =>
                    comment'[d].status = comment[d].status
  <2> DEFINE row == [activity |-> work[w].activity, team |-> work[w].team,
                     author |-> work[w].user, status |-> "shown", text |-> TRUE]
  <2>1. row \in CommentRow
    BY DEF IInv, FeedType, WorkRow, CommentRow
  <2>2. comment' = [comment EXCEPT ![c] = row] /\ comment[c].status = "none"
    BY <1>1 DEF PostComment, NoComment
  <2> HIDE DEF row
  <2> QED
    BY <2>1, <2>2 DEF CommentType
<1>2. CASE SaveComment(w)
  <2>1. comment' = [comment EXCEPT ![work[w].comment].text = TRUE]
    BY <1>2 DEF SaveComment, EditedComment
  <2> QED
    BY <2>1 DEF CommentType, CommentRow
<1>3. ASSUME NEW status \in {"deleted", "hidden"}, Cleared(w, status)
      PROVE  /\ CommentType'
             /\ \A d \in Comments :
                  comment[d].status \in {"deleted", "hidden"} =>
                    comment'[d].status = comment[d].status
  BY <1>3 DEF Cleared, CommentType, CommentRow
<1> QED
  BY <1>1, <1>2, <1>3 DEF Writing, DeleteComment, HideComment

LEMMA CommentTypeCorrect == FeedSpec => []CommentType
<1>1. IInv /\ CommentType /\ [FeedNext]_feedVars => CommentType'
  BY CommentSteps, WritingKeeps DEF CommentType
<1> QED
  BY <1>1, FeedInitial, Inductive, CommentInitial, PTL DEF FeedSpec

(* No late edit brings back a comment that was deleted or hidden.          *)
THEOREM GoneStaysGoneCorrect == FeedSpec => GoneStaysGone
<1> DEFINE Step == \A c \in Comments :
       comment[c].status \in {"deleted", "hidden"} =>
         comment'[c].status = comment[c].status
<1>1. IInv /\ CommentType /\ [FeedNext]_feedVars => Step
  BY CommentSteps, WritingKeeps
<1>2. FeedSpec => [][Step]_feedVars
  BY <1>1, FeedInitial, Inductive, CommentTypeCorrect, PTL DEF FeedSpec
<1> QED
  BY <1>2 DEF GoneStaysGone

=============================================================================
