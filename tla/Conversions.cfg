CONSTANTS
  w1 = w1
  w2 = w2
  c1 = c1
  c2 = c2
  Account = {a1, a2}
  Holder = {w1, w2}
  Payer = w1
  Code = {c1, c2}
  Decimals = 0
  NativeDecimals = 0
  Rounding = 1
  MaxDecimals = 1
  Entries <- MCEntries
  Lifetimes <- MCLifetimes
  MaxAmount = 1
  MaxLength = 2
  None = None
  Byte = 8
  Radix = 3
  Low = 4
  KeySize = 2
  MaxBump = 4
  Bytes <- MCBytes
  Texts <- MCTexts
  Keys <- MCKeys
  Halves <- MCHalves
SPECIFICATION MCSpec
SYMMETRY Codes
INVARIANTS EventsExplainBalances EveryMoveIsReported OneTransferIsShown Base58RoundTrip TransferIsReadBack HighestBumpIsFound
CHECK_DEADLOCK FALSE
