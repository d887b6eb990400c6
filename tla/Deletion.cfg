SPECIFICATION Spec
CONSTANTS
  Job = {j1, j2}
  Client = {c1}
  Worker = {w1}
  External = External
  Nothing = Nothing
  AtFirst = {External, Nothing}
  MaxRetry = 2
  MaxRequest = 1
  MaxCrash = 0
  Faults = TRUE
  Expiry = TRUE
  Retention = Retention
SYMMETRY JobSymmetry
INVARIANTS DeletionTypeOK
PROPERTIES LiveDataKept ExternalKept RetryLeavesNoTarget RetentionDropsOwn
VIEW View
CHECK_DEADLOCK FALSE
