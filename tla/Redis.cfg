\* One process, two approvers, up to two personas, three calls in any order.
CONSTANTS
  u1 = u1
  u2 = u2
  p1 = p1
  p2 = p2
  pod1 = pod1
  Pods = {pod1}
  Users = {u1, u2}
  Personas = {p1, p2}
  Mins = {1, 2}
  MaxCalls = 3
SPECIFICATION Spec
INVARIANTS
  TypeOK
  PersonaGate
  ApprovalEarned
  ApprovalStored
SYMMETRY Symmetry
CHECK_DEADLOCK FALSE
