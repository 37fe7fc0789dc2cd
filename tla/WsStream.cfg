CONSTANTS
  PongWait = 3
  MaxLanded = 2
  MaxFaults = 2
SPECIFICATION LiveSpec
INVARIANTS TypeOK NothingOutlivesTheCall UnseenIsOnItsWay DeadlineNeedsSilence
PROPERTIES LandedIsSeen CancelEndsEverything
CHECK_DEADLOCK FALSE
