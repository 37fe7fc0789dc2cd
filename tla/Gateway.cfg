CONSTANTS
  Request = {r1, r2, r3}
  Key = {k1, k2}
  Code = {c1}
  Address = {a1, a2}
  Token = {t1}
  None = None
  MaxHash = 1
  Env = {"rpcFail", "rpcLost", "storeFail", "storeLost", "leave", "expire", "restart"}
  MaxFaults = 2
SPECIFICATION Spec
INVARIANTS TypeOK KeyPaysOnce SentIsAccounted TokensAgree
SYMMETRY Symmetry
CHECK_DEADLOCK FALSE
