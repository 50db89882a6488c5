SPECIFICATION Spec
CONSTANTS
  prov = prov
  cons = cons
  other = other
  abc = abc
  xyz = xyz
  k1 = k1
  k2 = k2
  Ips <- MCIps
  Ports <- MCPorts
  SrvAddr <- MCSrvAddr
  Groups = {abc}
  Keys = {k1, k2}
  Mids = {k1, k2}
  NoKey = NoKey
  NoArg = NoArg
  NoCap = NoCap
  SqlFaults = FALSE
  Muted = {}
  MaxAttempts = 0
  MaxRej = 0
  MaxRowId = 3
  MaxDay = 0
  MaxRestarts = 1
  Peers = {prov, cons, other}
  At <- SrvPortAt
  PeerKey <- TrioKey
  Starts <- TrioStarts
  Natted = {}
  Garbled = {"?", "PER_DATA", "PER_PONG"}
  Kinds = {"TEXT", "LONG"}
  Redeliver = TRUE
  MaxLoss = 0
  MaxCrashes = 0
INVARIANTS
  LinkedHasPeer
  ServerPortNeverLinks
  NoAbort
