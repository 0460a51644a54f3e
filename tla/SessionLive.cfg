CONSTANTS
  Names = {n1}
  Keys = {k1}
  Stops = {r1, r2}
  AotNames = {n1}
  Modes = {TRUE, FALSE}
  None = None
SPECIFICATION FairSession
PROPERTIES
  EveryLaunchEnds
  StopIsAnswered
