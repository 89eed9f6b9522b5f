SPECIFICATION LiveSpec
CONSTANTS
  o1 = o1
  o2 = o2
  Orders = {o1}
  Quantity = 2
  MaxTries = 3
INVARIANTS ProjectionIsFold HoldUntilResolved SubmittedMeansPlaced OneBrokerOrder CleanSubmission
PROPERTIES ClosedStaysClosed FillsLand
