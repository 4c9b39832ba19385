SPECIFICATION Spec
CHECK_DEADLOCK FALSE
INVARIANTS AuditTrail ResultTrusted
CONSTANTS
  Contents = {plain, empty, broken}
  Original = plain
  Broken = {broken}
  Idle = {empty}
  None = None
  MaxVersions = 2
  MaxSales = 1
  MaxDeals = 1
  MaxFacts = 1
  Requests = {q1}
  MaxRevision = 3
  MaxCopies = 1
  MaxRuns = 1
