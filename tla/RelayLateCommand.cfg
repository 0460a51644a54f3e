CONSTANTS
  Calls = {c1}
  Polls = {p1}
  MaxQueue = 2
  MaxHangs = 1
SPECIFICATION Spec
INVARIANT
  GivenUpIsNotQueued
CHECK_DEADLOCK FALSE
