CONSTANTS
  Tasks = {t1, t2}
  Kept = {t1}
  None = None
  MaxCalls = 2
  MaxOps = 2
  CancelFails = TRUE
SPECIFICATION FairSpec
INVARIANTS
  TypeOK
  OneTaskShown
  DeletedNotShown
PROPERTIES
  OnlyAskedShown
  SubmissionEnds
CHECK_DEADLOCK FALSE
