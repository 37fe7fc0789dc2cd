CONSTANTS
  Account = {owner}
  Owner = owner
  Poller = Poller
  Main = Main
  MaxGen = 1
  MaxSlot = 3
  MaxBusy = 3
  Env = {}
  MaxEvents = 0
SPECIFICATION Spec
INVARIANTS NothingIsSkipped
