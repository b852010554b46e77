\* Two stores and a load, or one store and two loads, that overlap in part.
CONSTANTS
  lq_size = 2
  sq_size = 2
  Sizes = {1, 2}
  MemBytes = 2
  Byte = {0, 1}
  Faulting = {}
  Atomics = FALSE
  MaxWindow = 3
  NoAddr = NoAddr
SPECIFICATION Spec
VIEW Live
INVARIANTS
  LoadValueExact
