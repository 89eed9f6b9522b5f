SPECIFICATION Spec
CONSTANTS
  s1 = s1
  c1 = c1
  c2 = c2
  Staff = {s1}
  Customers = {c1, c2}
  EmailOf <- MCEmailOf
  Browsers = {b1, b2}
  Agents = {a1}
  Breaks = {k1}
  Requests = {r1, r2}
  MaxOrders = 2
  MaxTokens = 1
  MaxSecrets = 2
  None = None
INVARIANTS
  ReviewIsAtomic
PROPERTY
  DecidedByVerifiedStaff
SYMMETRY Symmetry
CHECK_DEADLOCK FALSE
