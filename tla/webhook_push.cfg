\* Three deliveries, two tenants that may succeed each other under one code.
SPECIFICATION Spec
CONSTANTS
  Tenant = {t1, t2}
  Code = {c1}
  App = {a1}
  Secret = {s1, s2}
  Delivery = {d1, d2, d3}
  Kind = {"test", "ticket", "code"}
  NULL = NULL
  AckLimit = 1
  HoldMax = 2
  BusyMax = 2
  Interval = 2
  Minute = 2
  Valid = 0
  MaxTime = 3
SYMMETRY Symmetry
INVARIANTS
  TypeOK
  OwnMessages
  FreshMeansRecent
PROPERTY OldTicketOnlyByRetry
CHECK_DEADLOCK FALSE
