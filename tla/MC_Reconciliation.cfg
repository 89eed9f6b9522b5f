SPECIFICATION ReconSpec
CONSTANTS
  Processes = {p1, p2}
  MarketDates = {1, 2}
  Period <- MCPeriod
  MaxRuns = 2
  c1 = c1
  Customers = {c1}
  Entries <- MCEntries
  Wrong = {1}
  Dividends = {dividend}
  Staff = {s1, s2}
  Holidays = {1}
  MaxResolved = 1
  None = None
INVARIANTS BreaksAreDifferences ResolvedOnce CompletedWasPerformed
CHECK_DEADLOCK FALSE
SYMMETRY Symmetry
