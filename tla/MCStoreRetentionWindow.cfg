SPECIFICATION Spec
CONSTANTS
  Stores = {s1, s2}
  Admins = {a1}
  None = None
  Levels <- MCSolventLevels
  Cycle = 3
  Grace = 0
  Retention = 2
  Milestones <- MCMilestones
  AutoVerify = FALSE
  MaxDay = 5
PROPERTIES EveryPauseHasItsWindow
SYMMETRY MCSymmetry
