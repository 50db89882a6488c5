SPECIFICATION HistorySpec
CONSTANTS
  prov = prov
  cons = cons
  other = other
  abc = abc
  xyz = xyz
  k1 = k1
  k2 = k2
  Ips <- MCIps
  Ports <- MCPorts
  SrvAddr <- MCSrvAddr
  Groups = {abc}
  Keys = {k1, k2}
  Mids = {k1, k2}
  NoKey = NoKey
  NoArg = NoArg
  NoCap = NoCap
  SqlFaults = FALSE
  Muted = {"SRV_PING"}
  MaxAttempts = 0
  MaxRej = 0
  MaxRowId = 3
  MaxDay = 0
  MaxRestarts = 0
  Peers = {prov, cons, other}
  At <- TrioAt
  PeerKey <- TrioKey
  Starts <- SwapStarts
  Natted = {prov, cons}
  Garbled = {"?", "PER_PING"}
  Kinds = {"TEXT"}
  Redeliver = TRUE
  MaxLoss = 0
  MaxCrashes = 1
INVARIANTS
  TypeOK
  RolesOpposite
  KeyIsolation
  CallsReadable
  LinkedReachable
  ShownFromOpposite
PROPERTIES
  NobodyLinksUncalled
