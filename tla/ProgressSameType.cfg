SPECIFICATION FairSpec
CONSTANTS
  Table = {x1, x2}
  Thread = {w1, w2}
  Stop = Stop
  Capacity = 1
  Strikes = 2
  Fallback = 3
  Patience = TRUE
  b = b
  f = f
  i1 = i1
  i2 = i2
  i3 = i3
  Task <- Tasks
  Worker = {v1, v2}
  Nobody = Nobody
  Item = {i1, i2, i3}
  TypeOf <- SameType
  ItemsOf <- Lists
  Bulk = {b}
  Forced = {f}
  Hard = {b}
  Unowned = {i2}
  MaxMishap = 1
PROPERTY TasksEnd
CHECK_DEADLOCK FALSE
