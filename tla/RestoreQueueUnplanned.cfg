SPECIFICATION Spec
CONSTANTS
  MaxJob = 2
  Name = {n1, n2}
  Host = {h1}
  Worker = {w1, w2}
  Nobody = Nobody
  MaxRunning <- OneEach
  Client = {c1}
  CancelPaths = {"web", "api"}
  StartWhenIdle = FALSE
  Stalls = TRUE
  MaxCrash = 1
  MaxClose = 1
SYMMETRY Symmetry
INVARIANTS HostCapacity OneWorkerPerJob QueueInv OneJobPerTarget LiveUnlessOverrun
PROPERTIES WebRespectsGate
CHECK_DEADLOCK FALSE
