CONSTANTS
  n1 = n1
  n2 = n2
  Neighbor = {n1, n2}
  Sender = {n1}
  PurgeDelay = 2
  HelloInterval = 2
  AllowedHelloLoss = 3
  RouteLife = 7
  Lives = {6, 7}
  Jitter = 1
  Silent = Silent
  Lossy = TRUE
  MaxMissed = 1
  MaxUses = 1
  MaxBounces = 1
SPECIFICATION FairSpec
INVARIANTS TypeOK SilentAreReported
PROPERTIES LiveLinksHold DeadAreDropped
