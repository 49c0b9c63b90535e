SPECIFICATION Spec
CONSTANTS
  alice = alice
  bob = bob
  m1 = m1
  m2 = m2
  m3 = m3
  Wallets = {alice, bob}
  Mints = {m1, m2, m3}
  Funds <- MCFunds
  Prices = {0, 2}
  Titles = {5, 31}
  Symbols = {4}
  Uris = {10}
  U16Max = 3
  U64Max = 5
  MaxClock = 2
  NoAccount = NoAccount
INVARIANT NextNftFits
CHECK_DEADLOCK FALSE
