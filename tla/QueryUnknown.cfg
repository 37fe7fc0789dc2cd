CONSTANTS
  MaxEndpoints = 1
  RetryTimes = 2
  IndexMod = 4
  MaxSlot = 1
  MaxFaults = 0
SPECIFICATION Spec
INVARIANTS OnchainIsFound
CHECK_DEADLOCK FALSE
