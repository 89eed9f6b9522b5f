SPECIFICATION Spec
CONSTANTS
  d1 = d1
  d2 = d2
  w1 = w1
  w2 = w2
  b1 = b1
  s1 = s1
  Deposits = {d1, d2}
  Withdrawals = {w1, w2}
  Buys = {b1}
  Sales = {s1}
  Amount <- MCAmount
  Quantity <- MCQuantity
  Prices = {1, 2}
  Proceeds <- MCProceeds
  CapPerTransaction = 2
  CapPerDay = 2
  LastDay = 1
INVARIANTS
  WithdrawnOnlySettled
  DailyDepositCap
CHECK_DEADLOCK FALSE
