\* One address, one delivery, two approvers with a form of two fields; two messages with three
\* updates each and two rate limits; four proxies and a stack of three.
CONSTANTS
  a1 = a1
  d1 = d1
  u1 = u1
  u2 = u2
  k1 = k1
  k2 = k2
  m1 = m1
  m2 = m2
  TicksPerSec = 2
  MaxClock = 9
  Addresses = {a1}
  Capacity = 2
  Parts = 3
  Refill = 2
  Deliveries = {d1}
  Skew = 2
  Ttl = 2
  Drift = 1
  Users = {u1, u2}
  Allowed = {u1, u2}
  Params = {k1, k2}
  OverrideKeys = {k1, k2}
  Texts <- FormTexts
  Canonical <- FormCanonical
  NumberOf <- FormNumbers
  Size <- FormSizes
  InitialParams <- FormParams
  SchemaFiles <- FormSchemas
  MinApprovals = 2
  MaxKeys = 2
  MaxChars = 2
  Keys = {m1, m2}
  MaxUpdates = 3
  MaxRateLimits = 2
  Values = {"v1", "v2", "v3"}
  MaxProxies = 4
  StackLimit = 3
SPECIFICATION Spec
INVARIANTS
  RateTypeOK
  RateBound
  HandledOnce
  EditsValid
  QueueTypeOK
  WakeupNotLost
  RestShowsLatest
  OneValue
  PatchedOnce
PROPERTIES
  UntouchedKept
  FormHonoured
  ShownForward
  ComesToRest
CHECK_DEADLOCK FALSE
