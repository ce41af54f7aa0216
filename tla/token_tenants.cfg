\* Two tenants and two workers with the clock standing still: which row and
\* which call a token may reach, and that every call ends.
SPECIFICATION FairSpec
CONSTANTS
  Tenant = {t1, t2}
  Loop = loop
  Pool = {p1}
  NULL = NULL
  Life = 1
  Skew = 0
  HttpMax = 0
  PauseMax = 0
  Forms <- FullAndPartial
  MaxTime = 0
  MaxVersion = 1
  MaxRevocations = 1
INVARIANTS
  OwnToken
PROPERTIES
  NoResurrection
  CallEnds
  KeepsTable
CHECK_DEADLOCK FALSE
