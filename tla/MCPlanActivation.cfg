SPECIFICATION Spec
CONSTANTS
  Requests = {r1, r2}
  Staff = TRUE
  MaxDate = 2
  MaxVersions = 3
  MaxAssignments = 4
SYMMETRY Symmetry
INVARIANTS OneActiveVersion CurrentInForce
PROPERTIES SyncPays ActivationKeepsArchive
