\* The smallest machine, whose payload buffer is sized exactly for it.
CONSTANTS
  fetch_width = 1
  dispatch_width = 1
  fq_size = 2
  rob_size = 2
  total_inflight_instr = 8
  DEBUG_SIZE = 8
  Program <- Loop
  Handler = 3
  SPLIT_STORES = TRUE
SPECIFICATION FairSpec
VIEW Live
INVARIANTS
  StagesAgreeOnDecode
  PAYNeverFull
  StagesMirrorPAY
  GoodIffOnPath
  CheckerPasses
PROPERTIES
  Progress
