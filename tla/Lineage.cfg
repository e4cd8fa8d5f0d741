\* Lineages of re-requests under the rate limit, the cooldown and retention; fair.
CONSTANTS
  u1 = u1
  u2 = u2
  u3 = u3
  outsider = outsider
  p1 = p1
  p2 = p2
  v1 = v1
  v2 = v2
  s1 = s1
  s2 = s2
  MaxRequests = 3
  Users = {u1}
  Personas = {p1}
  Policies <- LineagePolicies
  ParamValues = {v1}
  EscalateMins = {0}
  Passes = {}
  Minute = 2
  MaxTime = 3
  PilotMaxOpen = 2
  RerequestLimit = 2
  RerequestWindow = 1
  Retention = 2
SPECIFICATION FairSpec
INVARIANTS
  RerequestBound
PROPERTIES
  AcksOpenApproval
