\* Every start of the service, and two tenants with trusted domains.
SPECIFICATION FairSpec
CONSTANTS
  Tenant = {t1, t2}
  Browser = {b1}
  Visit = {v1, v2}
  Password = {p1, p2}
  Domain <- TypedDomains
  Content = {x}
  BLANK = BLANK
  NULL = NULL
  MaxCrashes = 1
INVARIANTS
  TypeOK
  ServesMigrated
  SessionOfAdmin
  AnswersDeclared
  AnswersOnlyAsked
PROPERTIES
  Starts
  ContentKept
CHECK_DEADLOCK FALSE
