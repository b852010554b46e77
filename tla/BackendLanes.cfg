\* Single-cycle and two-cycle ALU operations, loads that hit or stall, predicted
\* destinations, and two branches in flight over two lanes.
CONSTANTS
  size = 2
  part_size = 1
  IDEAL_AGE_BASED = TRUE
  NoInum = NoInum
  n_log_regs = 1
  n_phys_regs = 2
  n_branches = 2
  n_active = 3
  issue_width = 2
  RETIRE_WIDTH = 2
  ex_depth <- TwoDepths
  fu_lane <- Mixed
  PRESTEER = FALSE
  VP = TRUE
SPECIFICATION Spec
VIEW Live
INVARIANTS
  QueueConsistent
  ExactlyOnePlace
  NoLostWakeup
  OperandsWritten
