SPECIFICATION Spec
CONSTANTS
  Users = {u1}
  Grants = {}
  Attempts = {a1, a2}
  Requests = {r1}
  MaxTime = 3
  MaxEvents = 5
  MaxHandlers = 2
  ReservationTime = 1
  GrantExpiry = 1
  Tiered = FALSE
  Plans = {"pro_month"}
  None = None
SYMMETRY Symmetry
INVARIANTS NewestEventRules NeverAheadOfStripe Linked
PROPERTY NoRegress
CHECK_DEADLOCK FALSE
