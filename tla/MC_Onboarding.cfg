SPECIFICATION Spec
CONSTANTS
  Workers = {w1, w2}
  MaxAttempts = 2
  MaxSessions = 2
  MaxFailures = 1
  MaxOverrides = 1
  MaxCrashes = 1
INVARIANTS
  ProvisionedOnce
  ApprovedWasVerified
PROPERTIES
  VerdictFinal
  LostVerdictIsFound
CHECK_DEADLOCK FALSE
