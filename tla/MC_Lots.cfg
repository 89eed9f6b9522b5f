SPECIFICATION Spec
CONSTANTS
  Scale = 2
  Buys = {1, 2}
  Sells = {3, 4}
  Quantities = {1, 3}
  Reports <- MCReports
  Rates = {1}
  Days = {1, 2, 4}
  ActionDays = {2}
  WindowDays = 1
  MaxLotsNamed = 2
  Ratios <- MCRatios
  MaxCorporate = 1
  MaxAborts = 1
INVARIANTS
  BooksAgree
  WashSaleFound
PROPERTY
  OldestFirst
CHECK_DEADLOCK FALSE
