\* One call: what its log row says of it.
SPECIFICATION Spec
CONSTANTS
  Tenant = {t1}
  Code = {c1}
  Key = {k1}
  Request = {r1}
  Visit = {v1}
  Tool = {"query_current_stock"}
  Grants <- OneGrant
  NULL = NULL
INVARIANT SuccessMeansResult
CHECK_DEADLOCK FALSE
