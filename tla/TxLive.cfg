CONSTANTS
  Tx = {t1}
  Poller = Poller
  MaxGen = 1
  EndBlock = 0
  MaxHead = 0
  Env = {"crash", "publishFail", "fork"}
  MaxFaults = 2
SPECIFICATION LiveSpec
PROPERTIES QueueDrains FinalityIsReached VanishedIsRolledBack SubscribedIsCalledBack
