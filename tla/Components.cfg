SPECIFICATION Spec
CONSTANTS
  j1 = j1
  j2 = j2
  j3 = j3
  j4 = j4
  t1 = t1
  t2 = t2
  t3 = t3
  x1 = x1
  x2 = x2
  x3 = x3
  Job = {j1, j2, j3, j4}
  Target = {t1, t2, t3}
  Marker = m
  Table = {m, x1, x2, x3}
  Old = Old
  TargetOf <- Targets
  Backup <- TwoTables
  Before <- Contents
  Rotation = {r1, r2}
  Initial = Initial
  MaxFaults = 2
  k1 = k1
  k2 = k2
  h1 = h1
  Deployer = {k1, k2}
  Request = {s1, s2}
  Host = {h1}
  DbHost <- OneHost
  Unset = Unset
  Absent = Absent
  Blank = Blank
  MaxOutside = 1
  d1 = d1
  u1 = u1
  User = {u1, u2}
  Database = {d1, d2, d3}
  Row = {q1, q2, q3}
  Thread = {s1, s2}
  None = None
  External = External
  Consent <- AnyConsent
  AtFirst = {None, External}
  Limit = 2
  UserLimit = 1
SYMMETRY Symmetry
INVARIANTS TargetWhole DriftIsReported QuietEndInStep LimitsNearlyHold DeployedIsOwners
PROPERTIES RestoreKept SuccessIsLive ReplacesAtomicallyAtFirst ExternalKept ClaimKept
CHECK_DEADLOCK FALSE
