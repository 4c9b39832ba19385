SPECIFICATION FeedSpec
SYMMETRY Symmetry
INVARIANT ActivityCurrent
PROPERTIES JoinsOneTeam GoneStaysGone
CONSTANTS
  u1 = u1
  u2 = u2
  e1 = e1
  e2 = e2
  s1 = s1
  Users = {u1, u2}
  Emails = {e1, e2}
  MayLose = {}
  Invitees = {e2}
  MayHold <- OneEach
  Teams = {t1, t2}
  Invitations = {i1}
  Requests = {r1}
  Ops <- JoiningOps
  None = None
  Sales = {s1}
  Seller <- Second
  Units = {n1, n2}
  Activities = {a1, a2}
  Comments = {c1}
  Workers = {w1, w2}
  MaxBusy = 2
