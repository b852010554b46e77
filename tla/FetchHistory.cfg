\* A loop with calls, returns, conditional branches and an amo.
CONSTANTS
  bq_size = 4
  ras_size = 2
  recovery_approach = "WALK"
  bhr_length = 2
  instr_per_cycle = 3
  cond_branch_per_cycle = 2
  Program <- Mixed
  TraceHits = {FALSE, TRUE}
  StaleEntry <- Aliased
  Handler = 4
  MaxWindow = 4
  MaxDepth = 2
SPECIFICATION Spec
VIEW Live
INVARIANTS
  BranchQueueMirrors
  HistoryExact
  TrainsWhatPredicted
  StackExact
  IdleBehindSerializer
  DirectNeverMispredicted
