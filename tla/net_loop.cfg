CONSTANTS
  n1 = n1
  n2 = n2
  n3 = n3
  n4 = n4
  Node = {n1, n2, n3, n4}
  Link <- Kite
  NoNode = NoNode
  Wanted <- BehindOne
  GratuitousReply = TRUE
  DestinationOnly = FALSE
  MaxRequests = 2
  MaxFaults = 0
  SeqMod = 16
  TtlStart = 3
  TtlIncrement = 1
  TtlThreshold = 3
  NetDiameter = 4
  CntMod = 4
SPECIFICATION Spec
PROPERTIES RepliesMakeNoLoop
CHECK_DEADLOCK FALSE
