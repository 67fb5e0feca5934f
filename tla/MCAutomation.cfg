INIT MCInit
NEXT AutomationNext
CONSTANTS
  boss = boss
  dao = dao
  vault = vault
  other = other
  registry = registry
  registrar = registrar
  k1 = k1
  k2 = k2
  Zero = Zero
  NoUpkeep = NoUpkeep
  LINK = LINK
  Tokens = {LINK}
  FalseTokens = {}
  Accounts <- MCAccounts
  Users <- MCUsers
  Vault = vault
  Registry = registry
  Registrar = registrar
  registryOwner = dao
  Keepers <- MCKeepers
  Targets <- MCTargets
  Payees = {}
  Salaries = {1}
  FirstDates = {1}
  Periods = {1}
  Amounts = {1}
  LinkAmounts = {1}
  Payments = {1}
  MaxPayment = 1
  minUpkeepSpend = 1
  minLINKJuels = 1
  autoApproveMaxAllowed = 1
  CANCELATION_DELAY = 1
  UINT64_MAX = 9
  Genesis <- MCGenesis
  MaxNonce = 2
  MaxBlock = 2
  MaxSpent = 1
  MaxUint = 2
  MaxTime = 2
  MaxListed = 1
SYMMETRY KeeperSymmetry
INVARIANTS AutomationTypeOK UpkeepIdTracks WithdrawableAgrees
PROPERTIES LinkAccountedFor
CHECK_DEADLOCK FALSE
