SPECIFICATION Spec
CONSTANTS
  alice = alice
  bob = bob
  m1 = m1
  m2 = m2
  Wallets = {alice, bob}
  Mints = {m1, m2}
  Funds <- MCFunds
  Prices = {1}
  Titles = {5, 6}
  Symbols = {4}
  Uris = {10}
  U16Max = 2
  U64Max = 7
  I64Max = 3
  Frequencies = {2}
  Deposits = {1}
  PayerLamports = 2
  ThreadLamports = 1
  Revenues = {1}
  MaxRevenue = 1
  MaxClock = 3
  CloseWired = TRUE
  ExecuteWired = TRUE
  Elsewhere = Elsewhere
  NoAccount = NoAccount
  None = None
INVARIANT TypeOK
PROPERTIES EntitlementsFixed StatesInOrder
CHECK_DEADLOCK FALSE
