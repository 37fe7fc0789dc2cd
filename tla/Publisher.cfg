CONSTANTS
  Message = {m1, m2, m3}
  Env = {"break", "silence", "dial", "declare", "nack", "unbind", "refuse"}
  MaxFaults = 3
SPECIFICATION LiveSpec
INVARIANTS TypeOK
PROPERTIES ImplementsContract EveryCallReturns
CHECK_DEADLOCK FALSE
