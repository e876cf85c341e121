SPECIFICATION Spec
CONSTANTS
  Requests = {r1, r2, r3}
  Emails = {e1, e2}
  MaxFailures = 1
  None = None
INVARIANT OneOrgForEachUser
CHECK_DEADLOCK FALSE
