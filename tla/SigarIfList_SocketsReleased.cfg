CONSTANTS
  i1 = i1
  i2 = i2
  i3 = i3
  h1 = h1
  h2 = h2
  Ifaces <- MCIfaces
  Chunk = 2
  RecSize = 40
  MaxChanges = 2
  MaxFaults = 1
  HwAddrs = {h1, h2}
  NoRec = NoRec

SPECIFICATION Spec

INVARIANT SocketsReleased
