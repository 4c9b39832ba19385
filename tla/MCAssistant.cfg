SPECIFICATION FairSpec
INVARIANTS TypeOK RepliesFollowQuestions TurnsFit SubmittedOnce
PROPERTIES ClosedIsFinal IsDialogue TokenReleased
CONSTANTS
  Conversations = {c1, c2}
  Versions = {v1}
  NoVersion = NoVersion
  Submissions = {s1}
  NoSubmission = NoSubmission
  TurnLimit = 4
  MaxQuestions = 2
