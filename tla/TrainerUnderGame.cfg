CONSTANTS
  Games = {g1}
  Asks = {o1}
  Onboarding = {o1}
  None = None
SPECIFICATION Spec
PROPERTY NoTrainerUnderGame
CHECK_DEADLOCK FALSE
