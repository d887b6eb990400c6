SPECIFICATION FairSpec
CONSTANTS
  MaxJob = 2
  Name = {n1, n2}
  Host = {h1}
  Worker = {w1, w2}
  Nobody = Nobody
  MaxRunning <- TwoEach
  Client = {c1}
  CancelPaths = {}
  StartWhenIdle = FALSE
  Stalls = FALSE
  MaxCrash = 2
  MaxClose = 0
PROPERTIES QueuedEnds RunningEnds
CHECK_DEADLOCK FALSE
