CONSTANTS
  i1 = i1
  i2 = i2
  h1 = h1
  h2 = h2
  Ifaces <- MCIfaces
  Chunk = 1
  RecSize = 40
  MaxChanges = 2
  MaxFaults = 1
  HwAddrs = {h1, h2}
  NoRec = NoRec
  Builds = {"aixscan"}
  Loopbacks = {i1}

SPECIFICATION ConfigSpec

PROPERTY HwaddrCurrent
