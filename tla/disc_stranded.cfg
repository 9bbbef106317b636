CONSTANTS
  d1 = d1
  d2 = d2
  Dst = {d1}
  dev1 = dev1
  dev2 = dev2
  Dev = {dev1, dev2}
  AnyDev = AnyDev
  Stranger = Stranger
  Bindings = {AnyDev, dev1, dev2}
  SeqMod = 4
  TtlStart = 1
  TtlIncrement = 1
  TtlThreshold = 1
  NetDiameter = 2
  RreqRetries = 2
  RreqRateLimit = 16
  MaxQueueLen = 2
  ReplySeqs = {1, 2}
  Hops = {1, 2}
  MaxPackets = 2
  MaxEvents = 1
  CntMod = 256
SPECIFICATION FairSpec
PROPERTIES PacketSettles
CHECK_DEADLOCK FALSE
