SPECIFICATION StartupFairSpec
CONSTANTS
  p1 = p1
  p2 = p2
  p3 = p3
  Procs <- MCProcs
  SrvPort = 3
  CliPort = 4
  Tries = 2
  PortSpace = 8
  PortArgs <- MCPortArgs
  OtherPorts <- MCOtherPorts
INVARIANTS
  StartupTypeOK
  PeerOwnsItsPort
  GivesUpWhenAllRefused
  TablesKept
PROPERTIES
  SearchEnds
