\* Two handlers resolve one plan-fee payment at once.
SPECIFICATION Spec
CONSTANTS
  Sellers = {s1}
  Actors = {h1, h2}
  TopUps = {t1}
  PlanFees = {f1, f2}
  Payouts = {p1}
  None = None
  Owner <- MCOwner
  Price <- MCPrice
  PostTypes = {"commission_accrued"}
  PostAmounts <- MCPostAmounts
  Minimum = 1
  Placeholder = 3
  AutoVerify = TRUE
  MaxPostings = 3
  MaxOthers = 1
INVARIANT PeriodPaid
SYMMETRY MCSymmetry
