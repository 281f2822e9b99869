SPECIFICATION Spec
CONSTANTS
  wrong = wrong
  silent = silent
  forged = forged
  None = None
  Actors = {a1, a2}
  Requests = {1, 2}
  References = {wrong, silent, forged}
  Made = {wrong, silent}
  Items = {template}
  Item <- MCItem
  Price <- MCPrice
  Reported <- MCReported
  Window = 2
INVARIANTS TypeOK GrantedIsPaid OnePendingReference VerifiedIsOwned OneOpenFlag
PROPERTIES ReversalFlagged
