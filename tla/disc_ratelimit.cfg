CONSTANTS
  d1 = d1
  d2 = d2
  Dst = {d1, d2}
  dev1 = dev1
  dev2 = dev2
  Dev = {dev1}
  AnyDev = AnyDev
  Stranger = Stranger
  Bindings = {AnyDev}
  SeqMod = 4
  TtlStart = 1
  TtlIncrement = 1
  TtlThreshold = 1
  NetDiameter = 2
  RreqRetries = 1
  RreqRateLimit = 1
  MaxQueueLen = 2
  ReplySeqs = {1}
  Hops = {1, 2}
  MaxPackets = 3
  MaxEvents = 2
  CntMod = 4
SPECIFICATION Spec
INVARIANTS TypeOK SearchSupervised QueueSupervised QueueBounded
PROPERTIES AbortsOnlyOnWrap BufferSpec
CHECK_DEADLOCK FALSE
