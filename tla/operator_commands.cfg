SPECIFICATION FairSpec
CONSTANTS
  Jobs = {j1, j2}
  FlakeJobs = {}
  QueueWorkers = {w1}
  NamedWorkers = {}
  Herders = {h1}
  Operators = {o1, o2}
  Outcomes = {"succeed", "transient", "error", "hard"}
  Checkpoints = {}
  MaxAttempts = 1
  MaxHiccups = 1
  NoJob = NoJob
  NoWorker = NoWorker
  NoCheckpoint = NoCheckpoint
INVARIANTS LeaseColumns
PROPERTIES EveryJobEnds RefinesLifecycle
CHECK_DEADLOCK FALSE
