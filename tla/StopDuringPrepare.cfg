CONSTANTS
  Names = {n1}
  Keys = {k1}
  Stops = {r1}
  AotNames = {}
  Modes = {TRUE, FALSE}
  None = None
SPECIFICATION SessionSpec
INVARIANT
  StopDuringPrepareCancels
