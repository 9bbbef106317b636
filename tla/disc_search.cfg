CONSTANTS
  d1 = d1
  d2 = d2
  Dst = {d1}
  dev1 = dev1
  dev2 = dev2
  Dev = {dev1}
  AnyDev = AnyDev
  Stranger = Stranger
  Bindings = {AnyDev}
  SeqMod = 4
  TtlStart = 1
  TtlIncrement = 1
  TtlThreshold = 1
  NetDiameter = 2
  RreqRetries = 2
  RreqRateLimit = 16
  MaxQueueLen = 2
  ReplySeqs = {1, 2}
  Hops = {1, 2}
  MaxPackets = 3
  MaxEvents = 3
  CntMod = 256
SPECIFICATION FairSpec
INVARIANTS RetriesBounded NeverAborts
PROPERTIES SearchEnds PacketSettles
CHECK_DEADLOCK FALSE
