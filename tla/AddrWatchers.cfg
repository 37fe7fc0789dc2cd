CONSTANTS
  Account = {owner, ata}
  Owner = owner
  Poller = Poller
  Main = Main
  MaxGen = 2
  MaxSlot = 1
  MaxBusy = 1
  Env = {"token", "cancel", "again", "wsFail", "storeFail", "rpcFail"}
  MaxEvents = 1
SPECIFICATION Spec
INVARIANTS TypeOK OneLiveWatcher
PROPERTY CancelIsFinal
