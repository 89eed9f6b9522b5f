SPECIFICATION LiveSpec
CONSTANTS
  c1 = c1
  c2 = c2
  Charges = {c1, c2}
  MaxTries = 2
  MaxAttempts = 3
  MaxFaults = 2
INVARIANTS
  ChargedOnce
  PostedOnce
  DunningAgrees
PROPERTY
  FailureResolves
CHECK_DEADLOCK FALSE
