\* One tenant, an MCP call and a connection test at once, with time.
SPECIFICATION Spec
CONSTANTS
  Tenant = {t1}
  Loop = loop
  Pool = {p1}
  NULL = NULL
  Life = 5
  Skew = 3
  HttpMax = 1
  PauseMax = 1
  Forms <- FullOnly
  MaxTime = 6
  MaxVersion = 2
  MaxRevocations = 0
INVARIANTS
  TypeOK
  UsedTokenLive
  OldCredentialsFade
PROPERTIES
  ExpiryRegressionBounded
  KeepsPromise
CHECK_DEADLOCK FALSE
