\* Loads and stores that wait for stores, selected round-robin.
CONSTANTS
  size = 2
  part_size = 1
  IDEAL_AGE_BASED = FALSE
  NoInum = NoInum
  n_log_regs = 1
  n_phys_regs = 2
  n_branches = 1
  n_active = 2
  issue_width = 1
  RETIRE_WIDTH = 2
  ex_depth <- OneLane
  fu_lane <- MemoryOnly
  PRESTEER = TRUE
  VP = FALSE
SPECIFICATION FairSpec
PROPERTY HeadLeaves
