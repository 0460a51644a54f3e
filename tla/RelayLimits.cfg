CONSTANTS
  Conns = {c1, c2, c3, c4}
  Ips = {a1, a2}
  Subs = {s1}
  None = None
  GlobalMax = 3
  PerIp = 2
  PerSub = 2
  Rate = 2
  Quota = 2
  Chunks = {1, 2}
  Window = 2
  DayLength = 2
  MaxTime = 3
  Workers = 1
SPECIFICATION Spec
SYMMETRY Symmetric
INVARIANTS
  SlotsCounted
  CapsHeld
  RateHeld
  DailyBudget
PROPERTY
  RefusedOnlyAtLimit
CHECK_DEADLOCK FALSE
