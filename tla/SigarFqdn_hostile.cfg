CONSTANTS
  i1 = i1
  i2 = i2
  h1 = h1
  h2 = h2
  a1 = a1
  a2 = a2
  NULL = NULL
  NoRec = NoRec
  Ifaces <- MCIfaces
  Chunk = 1
  RecSize = 40
  MaxChanges = 1
  MaxFaults = 1
  HwAddrs = {h1}
  Builds = {"ioctl"}
  Loopbacks = {i1}
  Hostnames = {"host"}
  FwdAnswers <- MCFwdHostile
  RevAnswers <- MCRev
  DomainAnswers <- MCDomains
  Addrs <- MCAddrs
  SharedHostent = {FALSE}
  NameLen = 64
  IfAddr <- MCIfAddr

SPECIFICATION FqdnSpec

INVARIANT FqdnFallbackOrder
