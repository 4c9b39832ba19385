SPECIFICATION Spec
SYMMETRY Symmetry
INVARIANT OneActiveTeam
CONSTANTS
  u1 = u1
  u2 = u2
  e1 = e1
  e2 = e2
  Users = {u1, u2}
  Emails = {e1, e2}
  MayLose = {e1}
  Invitees = {e2}
  MayHold <- OneEach
  Teams = {t1, t2}
  Invitations = {i1, i2}
  Requests = {r1, r2}
  Ops <- JoiningOps
  None = None
