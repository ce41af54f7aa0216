\* Two tenants, two keys, two forms and one call at a time.
SPECIFICATION Spec
CONSTANTS
  Tenant = {t1, t2}
  Code = {c1, c2}
  Key = {k1, k2}
  Request = {r1}
  Visit = {v1, v2}
  Tool = {"query_current_stock", "query_customer"}
  Grants <- TwoGrants
  NULL = NULL
SYMMETRY Symmetry
INVARIANTS
  TypeOK
  UniqueCode
  NoOrphanKey
  RunsWithinGrant
  AnswerLogged
  LogTells
PROPERTIES
  RevokedStaysOut
  KeepsGate
  KeepsTable
CHECK_DEADLOCK FALSE
