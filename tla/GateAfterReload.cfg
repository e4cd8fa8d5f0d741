\* A re-request made after the policy file gained a persona.
CONSTANTS
  u1 = u1
  u2 = u2
  u3 = u3
  outsider = outsider
  p1 = p1
  p2 = p2
  v1 = v1
  v2 = v2
  s1 = s1
  s2 = s2
  MaxRequests = 2
  Users = {u1, outsider}
  Personas = {p1}
  Policies <- ReloadedPolicies
  ParamValues = {v1}
  EscalateMins = {0}
  Passes = {}
  Minute = 2
  MaxTime = 3
  PilotMaxOpen = 0
  RerequestLimit = 6
  RerequestWindow = 5
  Retention = 0
SPECIFICATION Spec
INVARIANT
  PersonaGate
