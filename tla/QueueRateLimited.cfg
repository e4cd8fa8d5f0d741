\* A rate-limited update and a newer one of the same message.
CONSTANTS
  m1 = m1
  m2 = m2
  Keys = {m1, m2}
  MaxUpdates = 3
  MaxRateLimits = 2
SPECIFICATION QueueFairSpec
PROPERTY
  LatestSent
