SPECIFICATION Spec
CONSTANTS
  PROGRAM_ID = PROGRAM_ID
  TOKEN_METADATA_PROGRAM_ID = TOKEN_METADATA_PROGRAM_ID
  ASSOCIATED_TOKEN_PROGRAM_ID = ASSOCIATED_TOKEN_PROGRAM_ID
  SystemProgram = SystemProgram
  TokenProgram = TokenProgram
  Rent = Rent
  PaymentMint = PaymentMint
  alice = alice
  bob = bob
  k1 = k1
  k2 = k2
  k3 = k3
  k4 = k4
  Keypair <- MCKeypair
  Offers <- MCOffers
  Edits <- MCEdits
  Orders <- MCOrders
  MaySpend <- MCMaySpend
  MaxCalls = 4
  Wallets = {alice, bob}
  Mints = {k1, k2, k3, k4}
  Funds <- MCFunds
  Prices = {1}
  Titles = {5, 29, 31}
  Symbols = {4, 7}
  Uris = {200, 201}
  U16Max = 3
  U64Max = 5
  MaxClock = 1
  NoAccount = NoAccount
  None = None
INVARIANTS TypeOK ResolvedMeansDone OneBuyInPerCall HoldingsComplete ViewsFaithful AccountsFit
PROPERTIES OnlyContentionFails EditsTouchWhatTheyName
CHECK_DEADLOCK FALSE
