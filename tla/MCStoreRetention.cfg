SPECIFICATION Spec
CONSTANTS
  Stores = {s1, s2}
  Admins = {a1}
  None = None
  Levels <- MCLevels
  Cycle = 1
  Grace = 1
  Retention = 2
  Milestones <- MCMilestones
  AutoVerify = TRUE
  MaxDay = 4
INVARIANTS TypeOK ClockOfThisPause
PROPERTIES FullWindow WarnedBeforeDeleted ClockWaitsForGrace
SYMMETRY MCSymmetry
