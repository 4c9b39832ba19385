SPECIFICATION Spec
SYMMETRY Symmetry
INVARIANTS OnePending MemberHasNoPending HeldOnce
PROPERTIES StaysBacked OutStaysOut
CONSTANTS
  u1 = u1
  u2 = u2
  e1 = e1
  e2 = e2
  Users = {u1, u2}
  Emails = {e1, e2}
  MayLose = {e1}
  Invitees = {e1, e2}
  MayHold <- OneShared
  Teams = {t1}
  Invitations = {i1, i2}
  Requests = {r1, r2}
  Ops <- OneTeamOps
  None = None
