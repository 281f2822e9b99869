\* A throw after the order is committed, against the one-order-per-cart claim.
CONSTANTS
  k1 = k1
  k2 = k2
  c1 = c1
  pSup = pSup
  pOwn = pOwn
  pAny = pAny
  NoCart = NoCart
  Calls = {k1, k2}
  Carts = {c1}
  Supplier = {pSup}
  Tracked = {pOwn}
  Untracked = {pAny}
  Qty <- MCQty
  InitialStock <- MCStock
  ItemLists <- MCLists
  UsageLimit = 1
  InitialGift = 3
  OrderTotal = 2
  LateFailures = TRUE
  CancelAborts = FALSE
SPECIFICATION Spec
INVARIANT OneOrderPerCart
CHECK_DEADLOCK FALSE
