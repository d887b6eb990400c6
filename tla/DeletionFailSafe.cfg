SPECIFICATION DeletionSpec
CONSTANTS
  Job = {j1, j2}
  Client = {c1}
  Worker = {w1}
  External = External
  Nothing = Nothing
  AtFirst = {External, Nothing}
  MaxRetry = 2
  MaxRequest = 1
  MaxCrash = 1
  Faults = TRUE
  Expiry = FALSE
  Retention = Retention
PROPERTIES FailSafe
CHECK_DEADLOCK FALSE
