CONSTANTS
  Scale = 1
  MaxDate = 2
  Holidays = {}
  Shares = 2
  OpeningCash = 2
  Prices = {1, 2}
  Gift = 2
  PeriodEnd = 1
  Quantum = 100
  Queries <- MCQueries
  Slots = {s1, s2}
  MaxClock = 4
  MaxFlows = 1
  None = None
SYMMETRY Symmetry
SPECIFICATION PerfSpec
CHECK_DEADLOCK FALSE
INVARIANTS
  PublishedReproduces
  GainsMeetPeak
