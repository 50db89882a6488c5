SPECIFICATION SrvFairSpec
CONSTANTS
  Ips <- MCIps
  Ports <- MCPorts
  SrvAddr <- MCSrvAddr
  Groups = {abc}
  Keys = {k1}
  Mids = {k1}
  NoKey = NoKey
  NoArg = NoArg
  NoCap = NoCap
  SqlFaults = FALSE
  Muted = {}
  MaxAttempts = 0
  MaxRej = 2
  MaxRowId = 3
  MaxDay = 1
  MaxRestarts = 0
INVARIANTS
  RejectThreshold
  RankOrder
  PrevClear
PROPERTIES
  RegisterTakesEffect
  StaleRowsGo
  IntroducedForever
