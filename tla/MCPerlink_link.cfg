SPECIFICATION FairSpec
CONSTANTS
  prov = prov
  cons = cons
  other = other
  abc = abc
  xyz = xyz
  k1 = k1
  k2 = k2
  Ips <- MCIps
  Ports <- MCPorts
  SrvAddr <- MCSrvAddr
  Groups = {abc}
  Keys = {k1}
  Mids = {k1}
  NoKey = NoKey
  NoArg = NoArg
  NoCap = NoCap
  SqlFaults = FALSE
  Muted = {"SRV_PING", "SRV_REGISTERRED"}
  MaxAttempts = 0
  MaxRej = 0
  MaxRowId = 2
  MaxDay = 0
  MaxRestarts = 0
  Peers = {prov, cons}
  At <- PairAt
  PeerKey <- PairKey
  Starts <- PairStarts
  Natted = {prov, cons}
  Garbled = {"?"}
  Kinds = {}
  Redeliver = FALSE
  MaxLoss = 1
  MaxCrashes = 1
PROPERTIES
  LinkEventually
  PongLinks
