SPECIFICATION Spec
CONSTANTS
  Workers = {w1}
  MaxAttempts = 2
  Free = Free
  Backend = Backend
INVARIANTS CancelledUnpublished
CHECK_DEADLOCK FALSE
