SPECIFICATION RebalanceSpec
CONSTANTS
  Processes = {p1}
  MarketDates = {1}
  Period <- MCPeriod
  MaxRuns = 1
  Scale = 2
  Customers = {c1, c2}
  A = A
  B = B
  half = half
  only = only
  Securities = {A, B}
  Ranked <- MCRanked
  Weights <- MCWeights
  Whole = 4
  Band <- MCBand
  Buffer <- MCBuffer
  Threshold = 3
  Books <- MCBooks
  CashReads <- MCCashReads
  Prices = {1, 3, 5}
  Wanted <- MCWanted
  MaxActs = 1
  None = None
INVARIANTS HeldWithinFunds BufferKept
CHECK_DEADLOCK FALSE
SYMMETRY Symmetry
