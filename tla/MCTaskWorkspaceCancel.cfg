CONSTANTS
  Tasks = {t1, t2}
  Kept = {t1}
  None = None
  MaxCalls = 2
  MaxOps = 2
  CancelFails = TRUE
SPECIFICATION Spec
INVARIANT ProcessingHasRun
CHECK_DEADLOCK FALSE
