\* One process, two approvers of a request that needs both.
CONSTANTS
  u1 = u1
  u2 = u2
  p1 = p1
  p2 = p2
  pod1 = pod1
  Pods = {pod1}
  Users = {u1, u2}
  Personas = {}
  Mins = {2}
  MaxCalls = 2
SPECIFICATION Spec
INVARIANT QuorumApproves
CHECK_DEADLOCK FALSE
