SPECIFICATION FairSpec
CONSTANTS
  Users = {u1}
  Grants = {g1}
  Attempts = {a1, a2}
  Requests = {r1}
  MaxTime = 2
  MaxEvents = 4
  MaxHandlers = 1
  ReservationTime = 1
  GrantExpiry = 9
  Tiered = FALSE
  Plans = {"pro_month"}
  None = None
PROPERTY PaidIsConfirmed
CHECK_DEADLOCK FALSE
