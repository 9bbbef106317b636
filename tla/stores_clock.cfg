CONSTANTS
  p1 = p1
  p2 = p2
  p3 = p3
  d1 = d1
  d2 = d2
  r1 = r1
  r2 = r2
  Packet = {p1, p2, p3}
  DstOf <- TwoAndOne
  Limits = {1, 2}
  Timeouts = {0, 1}
  Id = {r1, r2}
  NoId = NoId
  CacheOf <- OneCache
  Lifetime = 1
  RerrRateLimit = 1
  MaxErrors = 2
SYMMETRY Alike
SPECIFICATION Spec
INVARIANTS TypeOK NothingVanishes UnicastErrorsLimited
PROPERTIES LimitKept PunctualSpec HandledOnce
