SPECIFICATION Spec
SYMMETRY Symmetry
CHECK_DEADLOCK FALSE
INVARIANTS TypeOK AskedOnce OneCallPerSubmission LimitsKept
CONSTANTS
  Conversations = {c1, c2}
  Submissions = {s1, s2, s3}
  NoSubmission = NoSubmission
  TurnLimit = 3
  Window = 1
  WindowLimit = 2
  TimeToLive = 3
  Retention = 1
  TokenLife = 1
  DailyLimit = 1
  DayLength = 2
  MaxTime = 3
