SPECIFICATION LibrarySpec
CONSTANTS
  n1 = n1
  o1 = o1
  o2 = o2
  t1 = t1
  t2 = t2
  Ips <- MCIps
  Ports <- MCPorts
  Names = {n1}
  Hosts <- MCHosts
  LocalHost = 1
  ThePorts <- MCThePorts
  Types = {0, 1}
  Width = 3
  Left = 1
  Right = 2
  SumRight = 1
  Delta = 5
  Rounds = 3
  Secrets <- MCSecrets
  MaxLen = 3
  XorOf <- BitXor
  Socks = {o1, o2}
  Fds = {3, 4}
  Threads = {t1, t2}
  NoThread = NoThread
  Stale = Stale
INVARIANTS
  LibraryTypeOK
  RecognisedIsPresent
  OnePerPort
  SelfPairedOnlyIf
  FullBlocksComeBack
  ResultMeans
  DescriptorsOwned
  OutlivesOnlyIf
PROPERTIES
  StopReturns
CHECK_DEADLOCK FALSE
