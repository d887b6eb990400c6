SPECIFICATION Spec
CONSTANTS
  MaxJob = 1
  Name = {n1}
  Host = {h1}
  Worker = {w1, w2}
  Nobody = Nobody
  MaxRunning <- OneEach
  Client = {c1}
  CancelPaths = {"api"}
  StartWhenIdle = TRUE
  Stalls = FALSE
  MaxCrash = 0
  MaxClose = 0
PROPERTIES RestoreIsNotCanceled
CHECK_DEADLOCK FALSE
