\* One worker, one withdrawn token.
SPECIFICATION Spec
CONSTANTS
  Tenant = {t1}
  Loop = loop
  Pool = {}
  NULL = NULL
  Life = 5
  Skew = 3
  HttpMax = 1
  PauseMax = 1
  Forms <- FullOnly
  MaxTime = 3
  MaxVersion = 1
  MaxRevocations = 1
INVARIANT RejectedNotReused
CHECK_DEADLOCK FALSE
