CONSTANTS
  Games = {g1}
  Asks = {a1, o1}
  Onboarding = {o1}
  None = None
SPECIFICATION FairTraining
INVARIANTS
  OneTrainer
  NewestHoldsBridge
PROPERTY RequestAnswered
CHECK_DEADLOCK FALSE
