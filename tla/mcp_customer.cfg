\* One call of the customer query.
SPECIFICATION Spec
CONSTANTS
  Tenant = {t1}
  Code = {c1}
  Key = {k1}
  Request = {r1}
  Visit = {v1}
  Tool = {"query_customer"}
  Grants <- OneGrant
  NULL = NULL
INVARIANT QueryErrorMeansSent
CHECK_DEADLOCK FALSE
