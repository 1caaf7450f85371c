SPECIFICATION FairSpec
CONSTANTS
  Workers = {w1, w2, w3}
  MaxAttempts = 3
  Free = Free
  Backend = Backend
INVARIANTS SuccessKeepsFiles AnswerHonest FilesLeaveEvidence
PROPERTIES StopHonest LockReleased
CHECK_DEADLOCK FALSE
