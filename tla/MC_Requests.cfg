SPECIFICATION RequestsSpec
CONSTANTS
  Workers = {w1, w2}
  MaxLinks = 2
  MaxCrashes = 1
  Sent <- MCSent
  Ids = {1, 2, 3}
  Times = {1, 2}
  Limits = {1}
INVARIANTS
  AnsweredOnce
  HistoryComplete
SYMMETRY Symmetry
CHECK_DEADLOCK FALSE
