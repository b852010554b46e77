\* Two logical registers over a free list of two slots that fills, drains and
\* wraps; two checkpoints, so that branches nest and checkpoints are reused.
CONSTANTS
  n_log_regs = 2
  n_phys_regs = 4
  n_branches = 2
  n_active = 2
  dispatch_width = 1
  Flag = {"val_misp"}
SPECIFICATION Spec
VIEW Live
INVARIANTS
  TypeOK
  RegisterPartition
  CheckpointsRestore
  BranchMaskExact
  NoOrphanWait
