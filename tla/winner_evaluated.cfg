SPECIFICATION Spec
CONSTANTS
  MaxJobs = 3
  MaxEvents = 2
  NoJob = NoJob
  NoItem = NoItem
INVARIANTS WinnerEvaluated
CHECK_DEADLOCK FALSE
