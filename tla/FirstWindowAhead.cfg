SPECIFICATION Spec
CONSTANTS
  U16Max = 5
  U64Max = 15
  I64Max = 7
  Frequencies = {2}
  Deposits = {0, 2, 3}
  PayerLamports = 5
  ThreadLamports = 1
  Revenues = {1, 2}
  MaxRevenue = 3
  GenesisTime = 4
  MaxClock = 6
  CloseWired = TRUE
  ExecuteWired = TRUE
  Elsewhere = Elsewhere
  NoAccount = NoAccount
  None = None
PROPERTY FirstWindowAhead
CHECK_DEADLOCK FALSE
