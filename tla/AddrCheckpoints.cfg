CONSTANTS
  Account = {owner}
  Owner = owner
  Poller = Poller
  Main = Main
  MaxGen = 1
  MaxSlot = 3
  MaxBusy = 3
  Env = {"rpcFail", "crash", "notFound", "storeFail"}
  MaxEvents = 1
SPECIFICATION LiveSpec
INVARIANTS CheckpointCoversReported
PROPERTIES EveryTransactionReported
