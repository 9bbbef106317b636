CONSTANTS
  n1 = n1
  n2 = n2
  n3 = n3
  n4 = n4
  Node = {n1, n2, n3}
  Link <- Line
  NoNode = NoNode
  Wanted <- BothWays
  GratuitousReply = TRUE
  DestinationOnly = FALSE
  MaxRequests = 2
  MaxFaults = 2
  SeqMod = 16
  TtlStart = 2
  TtlIncrement = 1
  TtlThreshold = 2
  NetDiameter = 3
  CntMod = 4
SPECIFICATION Spec
INVARIANTS TypeOK SeqFromOwner OneHopIsDirect NextHopWasHeard FoundWhenQuiet
PROPERTIES SeqBackOnlyByOwner RequestsSentOnce ReplyUsersKnown LostByErrorsOnly
CHECK_DEADLOCK FALSE
