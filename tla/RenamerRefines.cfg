\* One free register and two checkpoints: rename stalls on each.
CONSTANTS
  n_log_regs = 2
  n_phys_regs = 3
  n_branches = 2
  n_active = 2
  dispatch_width = 1
  Flag = {"load_viol", "val_misp"}
SPECIFICATION FairSpec
VIEW Live
PROPERTIES
  ImplementsPrecise
  RenameStallEnds
