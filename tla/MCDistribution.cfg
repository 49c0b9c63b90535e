SPECIFICATION Spec
CONSTANTS
  U16Max = 5
  U64Max = 15
  I64Max = 7
  Frequencies = {0, 1, 2, 4, 15}
  Deposits = {0, 2, 3}
  PayerLamports = 5
  ThreadLamports = 1
  Revenues = {1, 2}
  MaxRevenue = 3
  GenesisTime = 1
  MaxClock = 6
  CloseWired = TRUE
  ExecuteWired = TRUE
  Elsewhere = Elsewhere
  NoAccount = NoAccount
  None = None
INVARIANTS TypeOK ProposalsMatchRounds RoundIndexCountsRounds ScheduleRespected ThreadFundsAccounted
PROPERTIES NoStalePayout VaultSweptByPayout
CHECK_DEADLOCK FALSE
