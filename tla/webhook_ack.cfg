\* One push while a tool call holds the loop.
SPECIFICATION Spec
CONSTANTS
  Tenant = {t1}
  Code = {c1}
  App = {a1}
  Secret = {s1}
  Delivery = {d1}
  Kind = {"ticket"}
  NULL = NULL
  AckLimit = 1
  HoldMax = 2
  BusyMax = 2
  Interval = 2
  Minute = 1
  Valid = 1
  MaxTime = 3
INVARIANT AckInTime
CHECK_DEADLOCK FALSE
