SPECIFICATION FairSpec
CONSTANTS
  MaxJobs = 5
  MaxEvents = 3
  NoJob = NoJob
  NoItem = NoItem
INVARIANTS OneActive ChainCompletes ScansBounded
PROPERTIES EligibleWhenApplied ComesToRest
CHECK_DEADLOCK FALSE
