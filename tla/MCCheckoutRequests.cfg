SPECIFICATION Spec
CONSTANTS
  Users = {u1}
  Grants = {g1, g2}
  Attempts = {a1, a2}
  Requests = {r1, r2}
  MaxTime = 1
  MaxEvents = 4
  MaxHandlers = 1
  ReservationTime = 1
  GrantExpiry = 9
  Tiered = TRUE
  Plans = {"basic_month", "pro_month"}
  None = None
SYMMETRY Symmetry
INVARIANTS TypeOK OneActiveAttempt BenefitBacked FounderConsistent
PROPERTY ImplementsLedger
CHECK_DEADLOCK FALSE
