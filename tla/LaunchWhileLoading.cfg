CONSTANTS
  Names = {n1}
  Keys = {k1, k2}
  Stops = {}
  AotNames = {}
  Modes = {FALSE}
  None = None
  MaxRestarts = 1
SPECIFICATION AdoptionSpec
INVARIANT
  StopKillsAdoptedGame
