CONSTANTS
  Cycles = 1000000
  IC_CFG <- TwoSets
  DC_CFG <- OneLine
  L2_CFG <- SharedL2
  TextLines = {0, 1}
  Lines = {2, 3}
  Loads = {1}
SPECIFICATION Spec
VIEW FromThisCycle
INVARIANTS
  LineNamesItsMHSR
  MissesEnd
PROPERTIES
  NeverEarly
  BundleArrived
