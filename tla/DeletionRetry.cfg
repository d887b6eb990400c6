SPECIFICATION FairDeletionSpec
CONSTANTS
  Job = {j1, j2}
  Client = {c1}
  Worker = {w1}
  External = External
  Nothing = Nothing
  AtFirst = {Nothing}
  MaxRetry = 2
  MaxRequest = 1
  MaxCrash = 1
  Faults = FALSE
  Expiry = FALSE
  Retention = Retention
PROPERTIES RetriesHappen
CHECK_DEADLOCK FALSE
