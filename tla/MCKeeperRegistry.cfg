SPECIFICATION RegistrySpec
CONSTANTS
  boss = boss
  dao = dao
  registry = registry
  registrar = registrar
  Zero = Zero
  LINK = LINK
  Tokens = {LINK}
  FalseTokens = {}
  Accounts <- MCAccounts
  Users <- MCUsers
  Registry = registry
  Registrar = registrar
  registryOwner = dao
  k1 = k1
  k2 = k2
  Keepers <- MCKeepers
  Targets = {vault}
  LinkAmounts = {1, 2}
  Payments = {1}
  MaxPayment = 1
  minUpkeepSpend = 1
  minLINKJuels = 1
  autoApproveMaxAllowed = 1
  CANCELATION_DELAY = 1
  UINT64_MAX = 9
  LinkGenesis <- MCGenesis
  MaxNonce = 2
  MaxBlock = 3
  MaxSpent = 1
SYMMETRY KeeperSymmetry
INVARIANTS RegistryTypeOK Accounting Solvent ActiveIDs
PROPERTIES CancelIsFinal
CHECK_DEADLOCK FALSE
