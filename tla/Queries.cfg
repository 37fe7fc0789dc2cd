CONSTANTS
  MaxEndpoints = 3
  RetryTimes = 2
  IndexMod = 10
  MaxSlot = 1
  MaxFaults = 9
SPECIFICATION LiveSpec
INVARIANTS TypeOK AloneAsksTheRounds AbsenceIsSaid
PROPERTIES EveryQueryIsAnswered
CHECK_DEADLOCK FALSE
