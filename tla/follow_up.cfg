SPECIFICATION Spec
CONSTANTS
  Jobs = {j1, j2, j3}
  FlakeJobs = {}
  QueueWorkers = {w1, w2}
  NamedWorkers = {}
  Herders = {}
  Operators = {}
  Outcomes = {"evaluate", "timer"}
  Checkpoints = {}
  MaxAttempts = 1
  MaxHiccups = 0
  NoJob = NoJob
  NoWorker = NoWorker
  NoCheckpoint = NoCheckpoint
SYMMETRY Symmetry
INVARIANTS FollowUpExact
CHECK_DEADLOCK FALSE
