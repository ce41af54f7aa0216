\* One call and the deletion of its tenant.
SPECIFICATION Spec
CONSTANTS
  Tenant = {t1}
  Code = {c1}
  Key = {k1}
  Request = {r1}
  Visit = {v1}
  Tool = {"query_current_stock"}
  Grants <- OneGrant
  NULL = NULL
INVARIANT NoOrphanLog
CHECK_DEADLOCK FALSE
