CONSTANTS
  Tx = {t1}
  Poller = Poller
  MaxGen = 1
  EndBlock = 0
  MaxHead = 1
  Env = {"crash", "publishFail", "publishLate", "storeFail", "fork", "rpcFail",
         "nullResult", "withhold"}
  MaxFaults = 2
SPECIFICATION Spec
INVARIANTS TypeOK AnnouncedBeforeRecorded RollbackOnlyAfterCallback
INVARIANTS RequestIsCalledBack CallbackCarriesTx
PROPERTY ImplementsOutbox
