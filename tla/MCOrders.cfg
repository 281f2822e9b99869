SPECIFICATION Spec
CONSTANTS
  Callers = {c1, c2}
  Items = {own, sup}
  Supplied = {sup}
  Requests = {r1, r2}
  Models = {"cod", "advance"}
  None = None
  Edited = {own}
  Ordered = 1
  MaxUnits = 2
  Shelf = 1
  Rate = 1
  MaxRefunds = 4
INVARIANTS TypeOK StockConserved SoldIffPaid RefundsWithinTotal ShippedIsShipped
PROPERTIES FollowsLifecycle
SYMMETRY MCSymmetry
VIEW MCView
CONSTRAINT MCOverwritten
CHECK_DEADLOCK FALSE
