\* Two ways for the three instructions of each bank that may be branches.
CONSTANTS
  banks = 2
  sets = 1
  assoc = 2
  cond_branch_per_cycle = 1
  Text <- Changing
SPECIFICATION Spec
INVARIANTS
  HitIsLastTrained
  ReplacesOldest
  TrainingAsserts
  MisfetchesConverge
