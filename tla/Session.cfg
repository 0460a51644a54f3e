CONSTANTS
  Names = {n1}
  Keys = {k1, k2}
  Stops = {r1}
  AotNames = {}
  Modes = {TRUE, FALSE}
  None = None
SPECIFICATION SessionSpec
SYMMETRY Symmetric
INVARIANTS
  OneHolder
  OneGame
  RunningIsRecorded
  LiveGameIsStoppable
  NoLeakedRegistration
  OneExit
PROPERTY
  ImplementsLifecycle
