SPECIFICATION Spec
CONSTANTS
  MaxJob = 1
  Name = {n1}
  Host = {h1}
  Worker = {w1, w2}
  Nobody = Nobody
  MaxRunning <- OneEach
  Client = {c1}
  CancelPaths = {"web"}
  StartWhenIdle = TRUE
  Stalls = FALSE
  MaxCrash = 1
  MaxClose = 0
INVARIANTS FailedIsUnlocked
CHECK_DEADLOCK FALSE
