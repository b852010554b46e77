\* Load-reserved and store-conditional in queues that fill, wrap and are cut by
\* nested branches; loads that wait for a store or for the head of the load
\* queue; accesses to byte 1 fault.
CONSTANTS
  lq_size = 2
  sq_size = 1
  Sizes = {1}
  MemBytes = 2
  Byte = {0, 1}
  Faulting = {1}
  Atomics = TRUE
  MaxWindow = 3
  NoAddr = NoAddr
SPECIFICATION FairSpec
VIEW Live
INVARIANTS
  QueuesMirrorWindow
PROPERTIES
  QueueStallEnds
