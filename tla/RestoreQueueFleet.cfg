SPECIFICATION Spec
CONSTANTS
  MaxJob = 2
  Name = {n1, n2}
  Host = {h1, h2}
  Worker = {w1, w2}
  Nobody = Nobody
  MaxRunning <- OneAndTwo
  Client = {c1}
  CancelPaths = {"web"}
  StartWhenIdle = TRUE
  Stalls = FALSE
  MaxCrash = 2
  MaxClose = 0
SYMMETRY Symmetry
INVARIANTS LoadCapacity TargetExclusive DeployedIsLive
PROPERTIES ReplaceOnlyWhileRunning FollowsLifecycle
CHECK_DEADLOCK FALSE
