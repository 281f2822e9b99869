\* As MCCheckout, with throws after the commit and cancellations that roll back.
CONSTANTS
  k1 = k1
  k2 = k2
  c1 = c1
  pSup = pSup
  pOwn = pOwn
  pAny = pAny
  NoCart = NoCart
  Calls = {k1, k2}
  Carts = {c1}
  Supplier = {pSup}
  Tracked = {pOwn}
  Untracked = {pAny}
  Qty <- MCQty
  InitialStock <- MCStock
  ItemLists <- MCLists
  UsageLimit = 1
  InitialGift = 3
  OrderTotal = 2
  LateFailures = TRUE
  CancelAborts = TRUE
SPECIFICATION Spec
SYMMETRY MCSymmetry
INVARIANTS AnswerIsTrue MoneyConserved NoUnitLost CodeWithinLimit
CHECK_DEADLOCK FALSE
