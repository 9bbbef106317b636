CONSTANTS
  n1 = n1
  n2 = n2
  d1 = d1
  Dst = {n1, d1}
  Hop = {n1, n2}
  NoHop = NoHop
  IfaceOf <- TwoIfaces
  ActiveRouteTimeout = 1
  PathDiscoveryTime = 1
  BadLinkLifetime = 1
  PathCheck = 2
  Way <- TwoPaths
  SeqMod = 4
SPECIFICATION Spec
INVARIANTS TypeOK StalePathsSwept
PROPERTIES EagerSpec_
