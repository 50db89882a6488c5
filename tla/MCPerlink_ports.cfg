SPECIFICATION Spec
CONSTANTS
  prov = prov
  cons = cons
  other = other
  abc = abc
  xyz = xyz
  k1 = k1
  k2 = k2
  Ips <- MCIps
  Ports <- MCPorts
  SrvAddr <- MCSrvAddr
  Groups = {abc}
  Keys = {k1}
  Mids = {k1}
  NoKey = NoKey
  NoArg = NoArg
  NoCap = NoCap
  SqlFaults = FALSE
  Muted = {"SRV_PING", "SRV_REGISTERRED"}
  MaxAttempts = 0
  MaxRej = 0
  MaxRowId = 3
  MaxDay = 0
  MaxRestarts = 0
  Peers = {prov, cons, other}
  At <- DefaultAt
  PeerKey <- OneKey
  Starts <- TrioStarts
  Natted = {}
  Garbled = {"?"}
  Kinds = {}
  Redeliver = FALSE
  MaxLoss = 0
  MaxCrashes = 0
PROPERTIES
  PongLinks
