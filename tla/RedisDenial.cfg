\* One process, one approver who denies a request nobody else touches.
CONSTANTS
  u1 = u1
  u2 = u2
  p1 = p1
  p2 = p2
  pod1 = pod1
  Pods = {pod1}
  Users = {u1}
  Personas = {}
  Mins = {1}
  MaxCalls = 2
SPECIFICATION Spec
INVARIANT DenialStored
CHECK_DEADLOCK FALSE
