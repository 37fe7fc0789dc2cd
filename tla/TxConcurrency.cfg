CONSTANTS
  Tx = {t1}
  Poller = Poller
  MaxGen = 1
  EndBlock = 0
  MaxHead = 1
  Env = {"cancel", "backfill"}
  MaxFaults = 0
SPECIFICATION LiveSpec
INVARIANTS OneLiveWatcher
PROPERTIES SubscriptionEnds
