CONSTANTS
  Calls = {c1, c2}
  Polls = {p1, p2}
  MaxQueue = 1
  MaxHangs = 1
SPECIFICATION FairRelay
INVARIANTS
  HandedOverOnce
  NothingSwallowed
  NoPollSleepsOnWork
  WaitingIsInflight
PROPERTIES
  PolledCallIsSettled
  ImplementsCommands
CHECK_DEADLOCK FALSE
