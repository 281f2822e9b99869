SPECIFICATION Spec
CONSTANTS
  Callers = {c1, c2, c3}
  Channels = {"none", "otp", "prepaid", "advance"}
  MaxAttempts = 2
  Ttl = 1
  Cooldown = 1
  MaxTime = 4
  MaxRounds = 3
INVARIANTS TypeOK GuessesBounded SendsLimited ConfirmedOnce PaidIsVerified
SYMMETRY MCSymmetry
CHECK_DEADLOCK FALSE
