\* One tenant whose trusted domain is typed with its port.
SPECIFICATION Spec
CONSTANTS
  Tenant = {t1}
  Browser = {b1}
  Visit = {v1}
  Password = {p1}
  Domain <- PortDomains
  Content = {x}
  BLANK = BLANK
  NULL = NULL
  MaxCrashes = 0
INVARIANT DomainMayCarryPort
CHECK_DEADLOCK FALSE
