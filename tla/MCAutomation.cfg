SPECIFICATION FairSpec
CONSTANTS
  PROGRAM_ID = PROGRAM_ID
  SQUADS_ID = SQUADS_ID
  CLOCKWORK_ID = CLOCKWORK_ID
  ASSOCIATED_TOKEN_PROGRAM_ID = ASSOCIATED_TOKEN_PROGRAM_ID
  SystemProgram = SystemProgram
  TokenProgram = TokenProgram
  Offering = Offering
  Multisig = Multisig
  Mint = Mint
  TokenAccount = TokenAccount
  Payer = Payer
  Authority = Authority
  PaymentsAccount = PaymentsAccount
  DisburseThread = DisburseThread
  CreateKey = CreateKey
  OtherMultisig = OtherMultisig
  OtherTransactions = {1, 2}
  Repairs <- AllRepairs
  U16Max = 4
  U64Max = 15
  I64Max = 7
  Frequencies = {1, 2}
  Deposits = {0, 2}
  PayerLamports = 2
  ThreadLamports = 1
  Revenues = {1}
  MaxRevenue = 1
  GenesisTime = 1
  MaxClock = 5
  CloseWired = TRUE
  ExecuteWired = TRUE
  Elsewhere = Elsewhere
  NoAccount = NoAccount
  None = None
INVARIANTS TypeOK CalculatedKickoffFits RoundsWired
PROPERTIES ThreadRunsWhatItCalculated DueRoundsHappen ImplementsDistribution
CHECK_DEADLOCK FALSE
