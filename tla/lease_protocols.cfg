SPECIFICATION Spec
CONSTANTS
  Jobs = {j1, f1}
  FlakeJobs = {f1}
  QueueWorkers = {w1, w2}
  NamedWorkers = {n1}
  Herders = {h1}
  Operators = {}
  Outcomes = {"checkpoint", "succeed", "transient", "error", "hard"}
  Checkpoints = {c1, c2}
  MaxAttempts = 2
  MaxHiccups = 1
  NoJob = NoJob
  NoWorker = NoWorker
  NoCheckpoint = NoCheckpoint
SYMMETRY Symmetry
INVARIANTS TypeOK SoleHolder AckMeansReaped AttemptsBounded
PROPERTIES StaleWorkerHarmless EndedStaysEnded
CHECK_DEADLOCK FALSE
