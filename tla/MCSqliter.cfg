SPECIFICATION SqliterFairSpec
CONSTANTS
  MaxHandles <- MCMaxHandles
INVARIANTS
  SqliterTypeOK
  HeldAreOpen
  HandlesAccounted
PROPERTIES
  RunsOut
CHECK_DEADLOCK FALSE
