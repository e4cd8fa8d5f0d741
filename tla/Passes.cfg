\* Two requests, overlapping scheduler passes, Slack failures; fair.
CONSTANTS
  u1 = u1
  u2 = u2
  u3 = u3
  outsider = outsider
  p1 = p1
  p2 = p2
  v1 = v1
  v2 = v2
  s1 = s1
  s2 = s2
  MaxRequests = 2
  Users = {u1}
  Personas = {}
  Policies <- PassPolicies
  ParamValues = {v1}
  EscalateMins = {0}
  Passes = {s1, s2}
  Minute = 3
  MaxTime = 3
  PilotMaxOpen = 0
  RerequestLimit = 6
  RerequestWindow = 4
  Retention = 0
SPECIFICATION FairSpec
INVARIANTS
  CountersAgree
PROPERTIES
  DecisionStable
  EscalationOnce
  ExpiryOnTime
  DueRequestsEnd
