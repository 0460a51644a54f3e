CONSTANTS
  Procs = {p1, p2, p3}
  None = None
  MaxTries = 1
  MaxConns = 1
  MaxKills = 1
SPECIFICATION FairSpec
INVARIANTS
  OneEngine
  PortFileOfHolder
  AcknowledgedIsKept
PROPERTIES
  SecondLaunchEnds
  ImplementsDesk
CHECK_DEADLOCK FALSE
