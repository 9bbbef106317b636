CONSTANTS
  i1 = i1
  i2 = i2
  a1 = a1
  a2 = a2
  b1 = b1
  b2 = b2
  Iface = {i1, i2}
  Wifi = {i1}
  AdhocWifi = {i1}
  Addr = {a1, a2, b1, b2}
  NoAddr = NoAddr
  Home <- TwoHomes
  Subnet <- ThreeSubnets
  d1 = d1
  Dest = {d1}
  MaxChanges = 6
SPECIFICATION Spec
INVARIANTS BroadcastSocketPerInterface
