SPECIFICATION SrvFairSpec
CONSTANTS
  Ips <- MCIps
  Ports <- MCPorts
  SrvAddr <- MCSrvAddr
  Groups = {abc}
  Keys = {k1}
  Mids = {k1}
  NoKey = NoKey
  NoArg = NoArg
  NoCap = NoCap
  SqlFaults = TRUE
  Muted = {}
  MaxAttempts = 1
  MaxRej = 1
  MaxRowId = 2
  MaxDay = 1
  MaxRestarts = 1
INVARIANTS
  SrvTypeOK
  TableSound
PROPERTIES
  NoFreshRowLost
  PrevForgotten
