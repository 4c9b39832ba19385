SPECIFICATION Spec
CHECK_DEADLOCK FALSE
SYMMETRY Interchangeable
INVARIANTS LedgerKept
CONSTANTS
  Users = {u1, u2}
  Emails = {a, b}
  None = None
  Cooldown = 1
  Stale = 1
  MaxTime = 2
  MaxEdits = 2
  MaxWork = 2
