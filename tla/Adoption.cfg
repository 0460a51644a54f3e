CONSTANTS
  Names = {n1}
  Keys = {k1, k2}
  Stops = {}
  AotNames = {}
  Modes = {TRUE, FALSE}
  None = None
  MaxRestarts = 1
SYMMETRY KeySymmetry
SPECIFICATION AdoptionSpec
INVARIANTS
  OneHolderAcrossRestarts
  RecordedGameBlocksPlay
  AdoptedExitOnce
  AdoptedGameIsRunning
  AdoptedGameIsWatched
PROPERTIES
  RecordLostOnlyToRewrite
  NoSecondGame
